---- MODULE Spec2Model ----
(***************************************************************************)
(* A model of the wasm-o bytecode interpreter (src/src/wasmintr.rs):       *)
(* WasmInterpreter::run, WasmInterpreter::branch and WasmStackValue.       *)
(*                                                                         *)
(* An operand cell (WasmStackValue) is a 64-bit union.  A cell is modelled *)
(* as the set of the positions of its 1 bits (bit 0 = least significant),  *)
(* so that every width of the source is kept exactly: an i32 is a subset   *)
(* of 0..31 and an i64 a subset of 0..63.                                  *)
(***************************************************************************)
EXTENDS Integers, Sequences, FiniteSets, TLC

VARIABLES
    invocation,       \* the function invoked by the embedder and its arguments
    overflow_checks,  \* whether the build checks arithmetic overflow (debug / test profile)
    frames,           \* the activations of `run`, the innermost last
    status,           \* "running", or how the invocation ended: "Ok", "Err", "panic"
    result,           \* the WasmValue returned when status = "Ok"
    error,            \* the WasmRuntimeError returned when status = "Err"
    memory,           \* memory 0 of the module: it outlives every invocation
    code_blocks,      \* the cursor of the embedder's WasmCodeBlock of every function
    runs,             \* the invocations made so far, the current one last
    runner            \* the runner (src/src/main.rs): the imports of its blob, how far
                      \* `main` has come, the callables installed, the error it met

vars == <<invocation, overflow_checks, frames, status, result, error,
          memory, code_blocks, runs, runner>>

(***************************************************************************)
(* Bit vectors                                                             *)
(***************************************************************************)
Pow2(n) == 2 ^ n

Bit(x, i) == IF i \in x THEN 1 ELSE 0

\* the low w bits of x (an `as uN` cast)
Low(x, w) == x \cap (0 .. (w - 1))

\* an extension that fills the upper bits with zeros
SignExtend_Zero(x, from, to) == Low(x, from)

\* sign extension of the low `from` bits of x to `to` bits (an `as iN as iM` cast)
SignExtend(x, from, to) ==
    IF (from - 1) \in x THEN Low(x, from) \cup (from .. (to - 1)) ELSE Low(x, from)

\* the bits of a natural number below 2^31
FromNat(n) == { i \in 0 .. 30 : (n \div Pow2(i)) % 2 = 1 }

\* a 32-bit pattern given as two 16-bit halves (0xHHHHLLLL)
Word32(hi16, lo16) == FromNat(lo16) \cup { i + 16 : i \in FromNat(hi16) }

\* the two's-complement i32 / i64 pattern of a small integer
FromInt(n, w) == IF n >= 0 THEN FromNat(n) ELSE (0 .. (w - 1)) \ FromNat((-n) - 1)

RECURSIVE SumBits(_)
SumBits(x) == IF x = {} THEN 0 ELSE LET i == CHOOSE j \in x : TRUE IN Pow2(i) + SumBits(x \ {i})

\* the natural number of a pattern that has no bit above bit 30
ToNat(x) == SumBits(x)

IsSmall(x) == \A i \in x : i <= 30

\* the element of a singleton; { e(x) : x \in {v} } computes v once for e
Only(S) == CHOOSE x \in S : TRUE

\* binary addition of bits lo .. hi-1 of a and b with a carry in: the sum bits
\* and the carry out, the upper half of the range taking the carry of the lower
RECURSIVE AddRange(_, _, _, _, _)
AddRange(a, b, lo, hi, carry) ==
    IF hi - lo = 1
    THEN LET s == Bit(a, lo) + Bit(b, lo) + carry
         IN  [sum |-> IF s % 2 = 1 THEN {lo} ELSE {}, carry |-> s \div 2]
    ELSE LET mid == (lo + hi) \div 2
         IN  Only({ Only({ [sum |-> lower.sum \cup upper.sum, carry |-> upper.carry] :
                             upper \in {AddRange(a, b, mid, hi, lower.carry)} }) :
                    lower \in {AddRange(a, b, lo, mid, carry)} })

\* a + b + carry modulo 2^w
AddFrom(a, b, carry, w) == Only({ AddRange(x[1], x[2], 0, w, carry).sum : x \in {<<a, b>>} })

Not(a, w) == (0 .. (w - 1)) \ a

Neg(a, w) == AddFrom(Not(a, w), {}, 1, w)

ShiftLeft(a, k, w) == { i + k : i \in a } \cap (0 .. (w - 1))

ShiftRightU(a, k, w) == { i - k : i \in { j \in Low(a, w) : j >= k } }

ShiftRightS(a, k, w) ==
    ShiftRightU(a, k, w) \cup (IF (w - 1) \in a THEN { i \in 0 .. (w - 1) : i >= w - 1 - k } ELSE {})

\* the sum modulo 2^w of the partial products of a by bits lo .. hi-1 of b
RECURSIVE MulRange(_, _, _, _, _)
MulRange(a, b, lo, hi, w) ==
    IF hi - lo = 1 THEN (IF lo \in b THEN ShiftLeft(a, lo, w) ELSE {})
    ELSE LET mid == (lo + hi) \div 2
         IN  AddFrom(MulRange(a, b, lo, mid, w), MulRange(a, b, mid, hi, w), 0, w)

\* unsigned comparison of two patterns
ULess(a, b) ==
    LET d == (a \ b) \cup (b \ a)
    IN  d # {} /\ (CHOOSE i \in d : \A j \in d : j <= i) \in b

\* restoring long division of unsigned w-bit a by b # 0, over the dividend bits
\* hi-1 down to lo, from partial remainder r: <<quotient bits, remainder>>
RECURSIVE DivModRange(_, _, _, _, _, _)
DivModRange(a, b, lo, hi, r, w) ==
    IF hi - lo = 1
    THEN Only({ IF ULess(r2, b) THEN <<{}, r2>>
                ELSE <<{lo}, AddFrom(r2, Neg(b, w + 1), 0, w + 1)>> :
                r2 \in {ShiftLeft(r, 1, w + 1) \cup (IF lo \in a THEN {0} ELSE {})} })
    ELSE LET mid == (lo + hi) \div 2
         IN  Only({ Only({ <<upper[1] \cup lower[1], lower[2]>> :
                             lower \in {DivModRange(a, b, lo, mid, upper[2], w)} }) :
                    upper \in {DivModRange(a, b, mid, hi, r, w)} })

DivModFrom(a, b, w) == Only({ DivModRange(x[1], x[2], 0, w, {}, w) : x \in {<<a, b>>} })

(***************************************************************************)
(* Rust integer primitives used by the handlers, on w-bit patterns         *)
(***************************************************************************)
wrapping_add(a, b, w) == AddFrom(Low(a, w), Low(b, w), 0, w)

wrapping_sub(a, b, w) == AddFrom(Low(a, w), Not(b, w), 1, w)

wrapping_mul(a, b, w) == Only({ MulRange(x[1], x[2], 0, w, w) : x \in {<<Low(a, w), Low(b, w)>>} })

\* u32::wrapping_div / u64::wrapping_div, b # 0
wrapping_div_u(a, b, w) == DivModFrom(Low(a, w), Low(b, w), w)[1]

\* u32::wrapping_rem / u64::wrapping_rem, b # 0
wrapping_rem_u(a, b, w) == Low(DivModFrom(Low(a, w), Low(b, w), w)[2], w)

IsNegative(a, w) == (w - 1) \in a

\* the magnitude of a signed w-bit pattern, as an unsigned w-bit pattern
Magnitude(a, w) == IF IsNegative(a, w) THEN Neg(Low(a, w), w) ELSE Low(a, w)

\* i32::wrapping_div / i64::wrapping_div, b # 0: truncating division; MIN / -1 wraps to MIN
wrapping_div_s(a, b, w) ==
    LET q == wrapping_div_u(Magnitude(a, w), Magnitude(b, w), w)
    IN  IF IsNegative(a, w) # IsNegative(b, w) THEN Neg(q, w) ELSE q

\* i32::wrapping_rem / i64::wrapping_rem, b # 0: the sign of the dividend; MIN % -1 is 0
wrapping_rem_s(a, b, w) ==
    LET r == wrapping_rem_u(Magnitude(a, w), Magnitude(b, w), w)
    IN  IF IsNegative(a, w) THEN Neg(r, w) ELSE r

\* the number of bits of a shift amount: 5 for 32-bit, 6 for 64-bit operands
Log2(w) == IF w = 64 THEN 6 ELSE 5

\* the right operand of `<<` / `>>` is in range (the check a build with overflow
\* checks makes before shifting): b < w as unsigned, which a negative b is not
ShiftInRange(b, w) == \A i \in Low(b, w) : i < Log2(w)

\* the shift amount a build without overflow checks uses: b masked to w - 1
ShiftMasked(b, w) == ToNat({ i \in Low(b, w) : i < Log2(w) })

\* a rotation that drops the bits it moves past the top
rotate_left_Shifts(a, n, w) == ShiftLeft(Low(a, w), ToNat(Low(n, Log2(w))), w)

\* uN::rotate_left(n) / rotate_right(n), n a u32: the rotation by n % w places
rotate_left(a, n, w) ==
    LET r == ToNat(Low(n, Log2(w)))
    IN  ShiftLeft(Low(a, w), r, w) \cup ShiftRightU(Low(a, w), w - r, w)

rotate_right(a, n, w) ==
    LET r == ToNat(Low(n, Log2(w)))
    IN  ShiftRightU(Low(a, w), r, w) \cup ShiftLeft(Low(a, w), w - r, w)

(***************************************************************************)
(* WasmValue (boundary value) and WasmStackValue (operand cell)            *)
(***************************************************************************)
ValEmpty == [type |-> "Empty", val |-> {}]

ValI32(v) == [type |-> "I32", val |-> Low(v, 32)]

ValI64(v) == [type |-> "I64", val |-> Low(v, 64)]

from_usize(v) == Low(v, 64)

from_bool(v) == IF v THEN from_usize({0}) ELSE from_usize({})

from_i32(v) == SignExtend(v, 32, 64)

from_u32(v) == Low(v, 32)

from_i64(v) == Low(v, 64)

from_u64(v) == Low(v, 64)

get_bool(c) == Low(c, 32) # {}

get_i32(c) == Low(c, 32)

\* a getter that returns the whole cell
get_u32_Whole(c) == c

get_u32(c) == Low(c, 32)

get_i64(c) == Low(c, 64)

get_u64(c) == Low(c, 64)

get_u8(c) == Low(c, 8)

get_u16(c) == Low(c, 16)

\* the default of the two unimplemented arms (F32, F64) is todo!(): a panic
get_by_type(c, val_type) ==
    CASE val_type = "I32" -> ValI32(get_i32(c))
      [] val_type = "I64" -> ValI64(get_i64(c))
      [] OTHER -> [type |-> "panic", val |-> {}]

\* impl From<WasmValue> for WasmStackValue
from_value(v) ==
    CASE v.type = "Empty" -> from_i64({})
      [] v.type = "I32" -> from_i64(SignExtend(v.val, 32, 64))
      [] v.type = "I64" -> from_i64(v.val)

\* WasmValue::default_for: the zero of a declared local
default_for(val_type) == IF val_type = "I64" THEN ValI64({}) ELSE ValI32({})

\* the upper half of a cell built as `WasmStackValue { i32: val }` is not
\* written: it holds whatever the build leaves there
UninitHigh == { {}, 32 .. 63 }

(***************************************************************************)
(* The byte stream reader of a code block (Leb128Stream / WasmCodeBlock).  *)
(* A position is a byte offset, 0 the first byte.                          *)
(***************************************************************************)
ByteAt(code, position) == code[position + 1]

HasByte(code, position) == position >= 0 /\ position < Len(code)

\* read_uint: LEB128 unsigned, 7 bits per byte, low-order first
RECURSIVE ReadUintFrom(_, _, _)
ReadUintFrom(code, position, shift) ==
    IF ~HasByte(code, position) THEN [ok |-> FALSE, val |-> 0, next |-> position]
    ELSE LET b == ByteAt(code, position)
         IN  IF b >= 128
             THEN LET r == ReadUintFrom(code, position + 1, shift + 7)
                  IN  [ok |-> r.ok, val |-> (b - 128) * Pow2(shift) + r.val, next |-> r.next]
             ELSE [ok |-> TRUE, val |-> b * Pow2(shift), next |-> position + 1]

read_uint(code, position) == ReadUintFrom(code, position, 0)

\* read_sint: LEB128 signed, sign-extended from bit 6 of the last byte; the
\* value is a 64-bit pattern
RECURSIVE ReadSintFrom(_, _, _)
ReadSintFrom(code, position, shift) ==
    IF ~HasByte(code, position) THEN [ok |-> FALSE, val |-> {}, next |-> position]
    ELSE LET b == ByteAt(code, position)
             chunk == { i + shift : i \in FromNat(b % 128) } \cap (0 .. 63)
         IN  IF b >= 128
             THEN LET r == ReadSintFrom(code, position + 1, shift + 7)
                  IN  [ok |-> r.ok, val |-> chunk \cup r.val, next |-> r.next]
             ELSE [ok |-> TRUE,
                   val |-> chunk \cup (IF b >= 64 THEN (shift + 7) .. 63 ELSE {}),
                   next |-> position + 1]

read_sint(code, position) == ReadSintFrom(code, position, 0)

\* WasmOpcode of a byte (the WebAssembly MVP opcode table and the
\* sign-extension operators)
OpcodeOf(b) ==
    CASE b = 0 -> "Unreachable"
      [] b = 1 -> "Nop"
      [] b = 2 -> "Block"
      [] b = 3 -> "Loop"
      [] b = 4 -> "If"
      [] b = 5 -> "Else"
      [] b = 11 -> "End"
      [] b = 12 -> "Br"
      [] b = 13 -> "BrIf"
      [] b = 14 -> "BrTable"
      [] b = 15 -> "Return"
      [] b = 16 -> "Call"
      [] b = 17 -> "CallIndirect"
      [] b = 26 -> "Drop"
      [] b = 27 -> "Select"
      [] b = 32 -> "LocalGet"
      [] b = 33 -> "LocalSet"
      [] b = 34 -> "LocalTee"
      [] b = 35 -> "GlobalGet"
      [] b = 36 -> "GlobalSet"
      [] b = 40 -> "I32Load"
      [] b = 41 -> "I64Load"
      [] b = 42 -> "F32Load"
      [] b = 44 -> "I32Load8S"
      [] b = 45 -> "I32Load8U"
      [] b = 46 -> "I32Load16S"
      [] b = 47 -> "I32Load16U"
      [] b = 48 -> "I64Load8S"
      [] b = 49 -> "I64Load8U"
      [] b = 50 -> "I64Load16S"
      [] b = 51 -> "I64Load16U"
      [] b = 52 -> "I64Load32S"
      [] b = 53 -> "I64Load32U"
      [] b = 54 -> "I32Store"
      [] b = 55 -> "I64Store"
      [] b = 58 -> "I32Store8"
      [] b = 59 -> "I32Store16"
      [] b = 60 -> "I64Store8"
      [] b = 61 -> "I64Store16"
      [] b = 62 -> "I64Store32"
      [] b = 63 -> "MemorySize"
      [] b = 64 -> "MemoryGrow"
      [] b = 65 -> "I32Const"
      [] b = 66 -> "I64Const"
      [] b = 69 -> "I32Eqz"
      [] b = 70 -> "I32Eq"
      [] b = 71 -> "I32Ne"
      [] b = 72 -> "I32LtS"
      [] b = 73 -> "I32LtU"
      [] b = 74 -> "I32GtS"
      [] b = 75 -> "I32GtU"
      [] b = 76 -> "I32LeS"
      [] b = 77 -> "I32LeU"
      [] b = 78 -> "I32GeS"
      [] b = 79 -> "I32GeU"
      [] b = 80 -> "I64Eqz"
      [] b = 81 -> "I64Eq"
      [] b = 82 -> "I64Ne"
      [] b = 83 -> "I64LtS"
      [] b = 84 -> "I64LtU"
      [] b = 85 -> "I64GtS"
      [] b = 86 -> "I64GtU"
      [] b = 87 -> "I64LeS"
      [] b = 88 -> "I64LeU"
      [] b = 89 -> "I64GeS"
      [] b = 90 -> "I64GeU"
      [] b = 106 -> "I32Add"
      [] b = 107 -> "I32Sub"
      [] b = 108 -> "I32Mul"
      [] b = 109 -> "I32DivS"
      [] b = 110 -> "I32DivU"
      [] b = 111 -> "I32RemS"
      [] b = 112 -> "I32RemU"
      [] b = 116 -> "I32Shl"
      [] b = 117 -> "I32ShrS"
      [] b = 118 -> "I32ShrU"
      [] b = 119 -> "I32Rotl"
      [] b = 120 -> "I32Rotr"
      [] b = 124 -> "I64Add"
      [] b = 125 -> "I64Sub"
      [] b = 126 -> "I64Mul"
      [] b = 127 -> "I64DivS"
      [] b = 128 -> "I64DivU"
      [] b = 129 -> "I64RemS"
      [] b = 130 -> "I64RemU"
      [] b = 134 -> "I64Shl"
      [] b = 135 -> "I64ShrS"
      [] b = 136 -> "I64ShrU"
      [] b = 137 -> "I64Rotl"
      [] b = 138 -> "I64Rotr"
      [] b = 146 -> "F32Add"
      [] b = 153 -> "F64Abs"
      [] b = 167 -> "I32WrapI64"
      [] b = 172 -> "I64ExtendI32S"
      [] b = 173 -> "I64ExtendI32U"
      [] b = 192 -> "I32Extend8S"
      [] b = 193 -> "I32Extend16S"
      [] b = 194 -> "I64Extend8S"
      [] b = 195 -> "I64Extend16S"
      [] b = 196 -> "I64Extend32S"
      [] OTHER -> "Invalid"

\* the binary comparisons: the width of the operands, whether they are read
\* through get_i32 / get_i64 (signed) and the relation
Comparisons ==
    [I32Eq |-> <<32, TRUE, "Eq">>, I32Ne |-> <<32, TRUE, "Ne">>,
     I32LtS |-> <<32, TRUE, "Lt">>, I32LtU |-> <<32, FALSE, "Lt">>,
     I32LeS |-> <<32, TRUE, "Le">>, I32LeU |-> <<32, FALSE, "Le">>,
     I32GtS |-> <<32, TRUE, "Gt">>, I32GtU |-> <<32, FALSE, "Gt">>,
     I32GeS |-> <<32, TRUE, "Ge">>, I32GeU |-> <<32, FALSE, "Ge">>,
     I64Eq |-> <<64, TRUE, "Eq">>, I64Ne |-> <<64, TRUE, "Ne">>,
     I64LtS |-> <<64, TRUE, "Lt">>, I64LtU |-> <<64, FALSE, "Lt">>,
     I64LeS |-> <<64, TRUE, "Le">>, I64LeU |-> <<64, FALSE, "Le">>,
     I64GtS |-> <<64, TRUE, "Gt">>, I64GtU |-> <<64, FALSE, "Gt">>,
     I64GeS |-> <<64, TRUE, "Ge">>, I64GeU |-> <<64, FALSE, "Ge">>]

ComparisonOpcodes == DOMAIN Comparisons

LoadOpcodes ==
    { "I32Load", "I64Load", "I32Load8S", "I32Load8U", "I32Load16S", "I32Load16U",
      "I64Load8S", "I64Load8U", "I64Load16S", "I64Load16U", "I64Load32S", "I64Load32U" }

StoreOpcodes ==
    { "I32Store", "I64Store", "I32Store8", "I32Store16", "I64Store8", "I64Store16",
      "I64Store32" }

ConversionOpcodes ==
    { "I32WrapI64", "I64ExtendI32S", "I64ExtendI32U", "I32Extend8S", "I32Extend16S",
      "I64Extend8S", "I64Extend16S", "I64Extend32S" }

\* the opcodes modelled here that `run` has a match arm for; every other opcode
\* takes the default arm
HandledOpcodes ==
    ComparisonOpcodes \cup
    { "Nop", "Block", "Loop", "If", "Else", "End", "Br", "BrIf", "BrTable", "Return",
      "Call", "Drop", "Select", "LocalGet", "LocalSet", "LocalTee", "I32Const", "I64Const",
      "I32Eqz", "I64Eqz",
      "I32Add", "I32Sub", "I32Mul", "I32DivS", "I32DivU", "I32RemS", "I32RemU",
      "I32Shl", "I32ShrS", "I32ShrU", "I32Rotl", "I32Rotr",
      "I64Add", "I64Sub", "I64Mul", "I64DivS", "I64DivU", "I64RemS", "I64RemU",
      "I64Shl", "I64ShrS", "I64ShrU", "I64Rotl", "I64Rotr", "MemorySize" }
    \cup LoadOpcodes \cup StoreOpcodes \cup ConversionOpcodes

(***************************************************************************)
(* The linear memory of the module (WasmMemory, memory 0) and the memarg   *)
(* of a load or a store.  The bytes of a memory are the set of the pairs   *)
(* <<address, byte>> of its non-zero bytes.                                *)
(***************************************************************************)
PageSize == 64 * 1024

\* a module without a memory: module.memory(0) is None
NoMemory == [present |-> FALSE, pages |-> 0, bytes |-> {}]

\* a module memory of one page, zero-filled at instantiation
FreshMemory == [present |-> TRUE, pages |-> 1, bytes |-> {}]

byte_length(mem) == mem.pages * PageSize

\* read_memarg: the alignment hint and the offset, two LEB128 unsigned
read_memarg(code, position) ==
    LET align == read_uint(code, position)
        offset == read_uint(code, align.next)
    IN  IF ~align.ok \/ ~offset.ok THEN [ok |-> FALSE, offset |-> 0, next |-> position]
        ELSE [ok |-> TRUE, offset |-> offset.val, next |-> offset.next]

\* an effective address computed in 32 bits
offset_by_Wrapping(memarg, base) == AddFrom(Low(base, 32), FromNat(memarg.offset), 0, 32)

\* memarg.offset_by(base): the effective address, a sum that does not wrap at 2^32
offset_by(memarg, base) == AddFrom(Low(base, 32), FromNat(memarg.offset), 0, 64)

\* the access of `size` bytes at effective address e lies inside the memory
InBounds(mem, e, size) ==
    /\ \A i \in e : i <= 24
    /\ ToNat(e) + size <= byte_length(mem)

ReadByte(mem, a) ==
    IF \E p \in mem.bytes : p[1] = a THEN (CHOOSE p \in mem.bytes : p[1] = a)[2] ELSE 0

\* byte k (0 the lowest) of a pattern
ByteOf(x, k) == ToNat({ i - 8 * k : i \in x \cap ((8 * k) .. (8 * k + 7)) })

\* read_u8 / read_u16 / read_u32 / read_u64: `size` bytes, little-endian
read_le(mem, e, size) ==
    IF ~InBounds(mem, e, size) THEN [ok |-> FALSE, val |-> {}]
    ELSE [ok |-> TRUE,
          val |-> UNION { { i + 8 * k : i \in FromNat(ReadByte(mem, ToNat(e) + k)) } :
                          k \in 0 .. (size - 1) }]

\* a write that stores the bytes that lie inside the memory before it fails
write_le_Partial(mem, e, size, val) ==
    IF InBounds(mem, e, size) \/ ~InBounds(mem, e, 1)
    THEN [ok |-> InBounds(mem, e, size),
          memory |-> IF ~InBounds(mem, e, size) THEN mem
                     ELSE [mem EXCEPT !.bytes =
                            { p \in @ : p[1] \notin { ToNat(e) + k : k \in 0 .. (size - 1) } }
                            \cup { <<ToNat(e) + k, ByteOf(val, k)>> :
                                   k \in { j \in 0 .. (size - 1) : ByteOf(val, j) # 0 } }]]
    ELSE [ok |-> FALSE,
          memory |-> [mem EXCEPT !.bytes =
                        { p \in @ : p[1] < ToNat(e) }
                        \cup { <<ToNat(e) + k, ByteOf(val, k)>> :
                               k \in { j \in 0 .. (size - 1) :
                                         /\ ByteOf(val, j) # 0
                                         /\ ToNat(e) + j < byte_length(mem) } }]]

\* write_u8 / write_u16 / write_u32 / write_u64: the low `size` bytes of val,
\* little-endian; nothing is written when the access is out of bounds
write_le(mem, e, size, val) ==
    IF ~InBounds(mem, e, size) THEN [ok |-> FALSE, memory |-> mem]
    ELSE LET span == { ToNat(e) + k : k \in 0 .. (size - 1) }
         IN  [ok |-> TRUE,
              memory |-> [mem EXCEPT !.bytes =
                  { p \in @ : p[1] \notin span }
                  \cup { <<ToNat(e) + k, ByteOf(val, k)>> :
                         k \in { j \in 0 .. (size - 1) : ByteOf(val, j) # 0 } }]]

(***************************************************************************)
(* The block pre-analyzer (WasmBlockInfo::analyze): one forward pass over  *)
(* a function body that records, for every block / loop / if, a            *)
(* WasmBlockContext keyed by the position right after the block signature  *)
(* (the position `run` pushes on its block stack).                         *)
(***************************************************************************)
\* WasmBlockType of a block signature byte
BlockTypeOf(sig) ==
    CASE sig = 64 -> "Empty"
      [] sig = 127 -> "I32"
      [] sig = 126 -> "I64"
      [] OTHER -> "Invalid"

\* the position after the immediates of a non-block opcode at `position`
\* (-1: the bytecode is truncated)
RECURSIVE SkipUints(_, _, _)
SkipUints(code, position, n) ==
    IF n = 0 THEN position
    ELSE LET r == read_uint(code, position)
         IN  IF r.ok THEN SkipUints(code, r.next, n - 1) ELSE -1

AfterImmediates(code, op, position) ==
    CASE op \in {"Br", "BrIf", "Call", "LocalGet", "LocalSet", "LocalTee",
                 "GlobalGet", "GlobalSet", "MemorySize", "MemoryGrow"} ->
            SkipUints(code, position, 1)
      [] op \in LoadOpcodes \cup StoreOpcodes \cup {"F32Load", "CallIndirect"} ->
            SkipUints(code, position, 2)
      [] op = "BrTable" ->
            LET n == read_uint(code, position)
            IN  IF n.ok THEN SkipUints(code, n.next, n.val + 1) ELSE -1
      [] op \in {"I32Const", "I64Const"} ->
            LET r == read_sint(code, position) IN IF r.ok THEN r.next ELSE -1
      [] OTHER -> position

\* the cells a non-block opcode pops and pushes
Pops(functions, code, op, position) ==
    CASE op \in {"BrIf", "BrTable", "Drop", "LocalSet", "GlobalSet", "MemoryGrow",
                 "F32Load", "F64Abs", "CallIndirect", "I32Eqz", "I64Eqz"}
                \cup LoadOpcodes \cup ConversionOpcodes -> 1
      [] op = "Select" -> 3
      [] op = "Call" ->
            LET f == read_uint(code, position).val
            IN  IF f + 1 \in DOMAIN functions THEN Len(functions[f + 1].param_types) ELSE 0
      [] op \in {"Nop", "Unreachable", "Br", "Return", "LocalGet", "LocalTee",
                 "I32Const", "I64Const", "GlobalGet", "MemorySize"} -> 0
      [] OTHER -> 2

Pushes(functions, code, op, position) ==
    CASE op \in {"Nop", "Unreachable", "Br", "BrIf", "BrTable", "Return", "Drop",
                 "LocalSet", "LocalTee", "GlobalSet"} \cup StoreOpcodes -> 0
      [] op = "Call" ->
            LET f == read_uint(code, position).val
            IN  IF f + 1 \in DOMAIN functions THEN Len(functions[f + 1].result_types) ELSE 0
      [] OTHER -> 1

Max(a, b) == IF a >= b THEN a ELSE b

AnalyzeFailed == [ok |-> FALSE, blocks |-> <<>>, max_stack |-> 0, max_block_level |-> 0]

RECURSIVE AnalyzeFrom(_, _, _)
AnalyzeFrom(functions, code, st) ==
    IF ~HasByte(code, st.position) THEN AnalyzeFailed
    ELSE
    LET op == OpcodeOf(ByteAt(code, st.position))
        p1 == st.position + 1
        top == st.shadow[Len(st.shadow)]
    IN  CASE op \in {"Block", "Loop", "If"} ->
                LET sig == read_uint(code, p1)
                    level == IF op = "If" THEN st.depth - 1 ELSE st.depth
                    ctx == [inst_type |-> op, position |-> sig.next, stack_level |-> level,
                            block_type |-> BlockTypeOf(sig.val), else_position |-> 0]
                IN  IF ~sig.ok \/ BlockTypeOf(sig.val) = "Invalid" \/ level < 0
                    THEN AnalyzeFailed
                    ELSE AnalyzeFrom(functions, code,
                            [st EXCEPT !.position = sig.next, !.depth = level,
                                       !.shadow = Append(@, ctx),
                                       !.max_block_level = Max(@, Len(st.shadow) + 1)])
          [] op = "Else" ->
                IF st.shadow = <<>> \/ top.inst_type # "If" THEN AnalyzeFailed
                ELSE AnalyzeFrom(functions, code,
                        [st EXCEPT !.position = p1, !.depth = top.stack_level,
                                   !.shadow[Len(st.shadow)].else_position = p1])
          [] op = "End" ->
                IF st.shadow = <<>>
                THEN IF p1 = Len(code)
                     THEN [ok |-> TRUE, blocks |-> st.blocks, max_stack |-> st.max_stack,
                           max_block_level |-> st.max_block_level]
                     ELSE AnalyzeFailed
                ELSE LET level == top.stack_level + (IF top.block_type = "Empty" THEN 0 ELSE 1)
                         done == [inst_type |-> top.inst_type, position |-> top.position,
                                  block_type |-> top.block_type,
                                  stack_level |-> top.stack_level,
                                  else_position |-> top.else_position,
                                  end_position |-> p1]
                     IN  AnalyzeFrom(functions, code,
                            [st EXCEPT !.position = p1, !.depth = level,
                                       !.shadow = SubSeq(@, 1, Len(@) - 1),
                                       !.blocks = Append(@, done),
                                       !.max_stack = Max(@, level)])
          [] op = "Invalid" -> AnalyzeFailed
          [] OTHER ->
                LET next == AfterImmediates(code, op, p1)
                    popped == st.depth - Pops(functions, code, op, p1)
                    level == popped + Pushes(functions, code, op, p1)
                IN  IF next < 0 \/ popped < 0 THEN AnalyzeFailed
                    ELSE AnalyzeFrom(functions, code,
                            [st EXCEPT !.position = next, !.depth = level,
                                       !.max_stack = Max(@, level)])

analyze(functions, code) ==
    AnalyzeFrom(functions, code,
        [position |-> 0, depth |-> 0, shadow |-> <<>>, blocks |-> <<>>,
         max_stack |-> 0, max_block_level |-> 0])

\* WasmBlockInfo::block_info: the context recorded for a block position, if any
HasBlockInfo(info, position) == \E i \in DOMAIN info.blocks : info.blocks[i].position = position

block_info(info, position) ==
    info.blocks[CHOOSE i \in DOMAIN info.blocks : info.blocks[i].position = position]

\* WasmBlockContext::preferred_target: a loop is branched to at its position,
\* a block or an if at its end
preferred_target(block) ==
    IF block.inst_type = "Loop" THEN block.position ELSE block.end_position

(***************************************************************************)
(* The module under execution: its function table (imports first).  A      *)
(* function index f of the bytecode denotes Functions[f + 1].  `inputs`    *)
(* are the argument lists the function is invoked with from outside.       *)
(***************************************************************************)
MaxN == 4

I32(n) == ValI32(FromInt(n, 32))

I64(n) == ValI64(FromInt(n, 64))

Func(params, locals, results, code, inputs) ==
    [imported |-> FALSE, param_types |-> params, local_types |-> locals,
     result_types |-> results, code |-> code, inputs |-> inputs]

Import(params, results) ==
    [imported |-> TRUE, param_types |-> params, local_types |-> <<>>,
     result_types |-> results, code |-> <<>>, inputs |-> {}]

SmallArgs == { <<I32(n)>> : n \in {0, 1, 2, -1} }

PairArgs == { <<I32(a), I32(b)>> : a, b \in {0, 3, -1} }

\* block (i32) / block / block with one cell pushed before each and `br depth` innermost
NestCode(depth) == <<65, 1, 2, 127, 65, 2, 2, 64, 65, 3, 2, 64, 65, 4, 12, depth, 11, 11,
                     65, 5, 11, 106, 11>>

ControlFunctions ==
    << Import(<<"I32", "I32">>, <<"I32">>),                                       \*  0 env.print
       Func(<<"I32", "I32">>, <<>>, <<"I32">>, <<32, 0, 32, 1, 106, 11>>, {}),    \*  1 add
       Func(<<"I32">>, <<"I32">>, <<>>, <<32, 0, 33, 1, 11>>, {}),                \*  2 consume
       Func(<<"I32", "I32">>, <<>>, <<"I32">>,                                    \*  3 caller
            <<65, 228, 0, 32, 0, 32, 1, 16, 1, 32, 0, 16, 2, 106, 11>>, PairArgs),
       Func(<<"I32">>, <<>>, <<"I32">>, <<65, 0, 32, 0, 16, 0, 11>>, SmallArgs),  \*  4 host call
       Func(<<"I32">>, <<>>, <<"I32">>, <<32, 0, 32, 0, 16, 1, 11>>, {}),         \*  5 twice
       Func(<<"I32">>, <<>>, <<"I32">>, <<65, 7, 32, 0, 16, 5, 108, 11>>, SmallArgs), \* 6
       Func(<<"I64">>, <<>>, <<"I64">>, <<32, 0, 66, 1, 124, 11>>, {}),           \*  7 wide
       Func(<<"I64">>, <<>>, <<"I64">>, <<66, 5, 32, 0, 16, 7, 126, 11>>,         \*  8
            { <<I64(n)>> : n \in {0, 3, -1} }),
       Func(<<"I32", "I32">>, <<>>, <<"I32">>,                                    \*  9 div
            <<65, 3, 32, 0, 32, 1, 16, 10, 106, 11>>, PairArgs),
       Func(<<"I32", "I32">>, <<>>, <<"I32">>, <<32, 0, 32, 1, 109, 11>>, {}),    \* 10 div_s
       Func(<<"I32">>, <<"I32">>, <<"I32">>,                                      \* 11 loop_test
            <<65, 0, 33, 1, 3, 64, 32, 1, 65, 1, 106, 33, 1, 32, 0, 65, 1, 107, 34, 0,
              13, 0, 11, 32, 1, 11>>,
            { <<I32(n)>> : n \in 1 .. MaxN }),
       Func(<<>>, <<>>, <<"I32">>, NestCode(0), {<<>>}),                          \* 12
       Func(<<>>, <<>>, <<"I32">>, NestCode(1), {<<>>}),                          \* 13
       Func(<<>>, <<>>, <<"I32">>, NestCode(2), {<<>>}),                          \* 14
       Func(<<>>, <<>>, <<"I32">>, NestCode(3), {<<>>}),                          \* 15
       Func(<<>>, <<>>, <<"I32">>, NestCode(4), {<<>>}),                          \* 16
       Func(<<>>, <<>>, <<"I32">>, <<2, 127, 65, 7, 12, 0, 11, 11>>, {<<>>}),     \* 17
       Func(<<>>, <<>>, <<"I32">>, <<65, 7, 12, 0, 11>>, {<<>>}),                 \* 18
       Func(<<"I32">>, <<>>, <<"I32">>, <<65, 7, 32, 0, 13, 0, 11>>, SmallArgs),  \* 19
       Func(<<"I32">>, <<>>, <<"I32">>,                                           \* 20
            <<2, 127, 65, 7, 32, 0, 13, 0, 11, 11>>, SmallArgs),
       Func(<<"I32">>, <<>>, <<"I32">>,                                           \* 21 br_table
            <<2, 64, 2, 64, 2, 64, 32, 0, 14, 2, 0, 1, 2, 11, 65, 10, 15, 11,
              65, 11, 15, 11, 65, 12, 11>>,
            { <<I32(n)>> : n \in {0, 1, 2, 3, -1} }),
       Func(<<"I32">>, <<>>, <<"I32">>,                                           \* 22
            <<2, 64, 32, 0, 14, 0, 0, 11, 65, 10, 11>>, SmallArgs),
       Func(<<"I32">>, <<>>, <<"I32">>, <<65, 7, 32, 0, 14, 1, 0, 0, 11>>,        \* 23
            SmallArgs),
       Func(<<"I32">>, <<>>, <<"I32">>,                                           \* 24 if else
            <<32, 0, 4, 127, 65, 10, 5, 65, 20, 11, 11>>, SmallArgs),
       Func(<<"I32">>, <<>>, <<"I32">>, <<32, 0, 4, 64, 1, 11, 65, 3, 11>>,       \* 25 if
            SmallArgs),
       Func(<<"I32", "I32">>, <<>>, <<"I32">>,                                    \* 26
            <<32, 0, 32, 1, 32, 0, 27, 65, 9, 26, 11>>, PairArgs),
       Func(<<>>, <<>>, <<>>, <<0, 11>>, {<<>>}),                                 \* 27
       Func(<<>>, <<>>, <<"I64">>, <<66, 127, 66, 1, 124, 11>>, {<<>>}),          \* 28
       Func(<<"I32">>, <<>>, <<"I32">>, <<32, 0, 15, 11>>, SmallArgs),            \* 29 return
       Func(<<"I32">>, <<>>, <<"I32">>,                                           \* 30 br to loop
            <<3, 64, 32, 0, 4, 64, 32, 0, 65, 1, 107, 33, 0, 12, 1, 11, 11, 32, 0, 11>>,
            SmallArgs),
       Func(<<>>, <<>>, <<"I32">>, <<2, 127, 12, 0, 11, 11>>, {<<>>})             \* 31
    >>

\* operand values of the arithmetic bodies: small numbers, the extremes, the
\* operands of the repository's tests, and shift counts around the width
ArgVals32 ==
    { FromInt(0, 32), FromInt(1, 32), FromInt(7, 32), FromInt(-1, 32), FromInt(-7, 32),
      {31}, Word32(57005, 48879), Word32(21845, 21845), FromInt(1234, 32),
      FromInt(5678, 32), FromInt(31, 32), FromInt(32, 32), FromInt(33, 32) }

ArgVals64 ==
    { FromInt(0, 64), FromInt(1, 64), FromInt(7, 64), FromInt(-1, 64), FromInt(-7, 64),
      {63}, {32} }

\* and, for the operators that do not divide, shift counts around the width
WideArgVals64 ==
    ArgVals64 \cup { Word32(57005, 48879) \cup { i + 32 : i \in Word32(21845, 21845) },
                     FromInt(63, 64), FromInt(64, 64), FromInt(65, 64) }

\* local.get 0; local.get 1; <op>; end
BinaryCode(op) == <<32, 0, 32, 1, op, 11>>

Ops32 == <<106, 107, 108, 109, 110, 111, 112, 116, 117, 118>>

Ops64 == <<124, 125, 126, 127, 128, 129, 130, 134, 135, 136>>

\* the opcodes of the loads and of the stores
LoadOps == <<40, 41, 44, 45, 46, 47, 48, 49, 50, 51, 52, 53>>

StoreOps == <<54, 55, 58, 59, 60, 61, 62>>

\* the memarg offsets of the bodies
Offsets == <<0, 4>>

\* the opcodes of the conversions of a 32-bit operand and of a 64-bit operand
Narrow == <<172, 173, 192, 193>>

Wide == <<194, 195, 196>>

\* The function index space: the 32 control bodies, one body per binary
\* opcode, 5 sequence bodies, one body per load and per store and offset,
\* 5 result bodies, 8 bodies of unimplemented opcodes, one body per conversion,
\* 7 wrap bodies.
\* the index of the function whose body applies binary opcode byte `op`
BinaryFunc(op) ==
    31 + (CHOOSE i \in 1 .. Len(Ops32 \o Ops64) : (Ops32 \o Ops64)[i] = op)

\* the index of the k-th (from 0) of the sequence bodies, of the body of a load
\* and of the body of a store
SequenceFunc(k) == BinaryFunc(136) + 1 + k

LoadFunc(op, offset) ==
    SequenceFunc(5)
    + (CHOOSE i \in 0 .. (Len(LoadOps) * Len(Offsets) - 1) :
            /\ LoadOps[(i \div Len(Offsets)) + 1] = op
            /\ Offsets[(i % Len(Offsets)) + 1] = offset)

StoreFunc(op, offset) ==
    LoadFunc(53, 4) + 1
    + (CHOOSE i \in 0 .. (Len(StoreOps) * Len(Offsets) - 1) :
            /\ StoreOps[(i \div Len(Offsets)) + 1] = op
            /\ Offsets[(i % Len(Offsets)) + 1] = offset)

ResultFunc(k) == StoreFunc(62, 4) + 1 + k

UnimplementedFunc(k) == ResultFunc(5) + k

ConvertFunc(op) ==
    UnimplementedFunc(8) - 1
        + (CHOOSE i \in 1 .. Len(Narrow \o Wide) : (Narrow \o Wide)[i] = op)

FirstWrap == ConvertFunc(196) + 1

\* the opcodes of the rotations, and the index of the body of each
Rotations == <<119, 120, 137, 138>>

RotateFunc(op) == FirstWrap + 6 + (CHOOSE i \in 1 .. Len(Rotations) : Rotations[i] = op)

\* the index of the k-th (from 0) of the bodies of structured control
StructureFunc(k) == RotateFunc(138) + 1 + k

SelectFunc(k) == StructureFunc(17) + k

StoreLoadFunc(k) == SelectFunc(2) + k

ExtendingLoadFunc(k) == StoreLoadFunc(7) + k

\* the body of the comparison or eqz with opcode byte op (69 .. 90)
CompareFunc(op) == ExtendingLoadFunc(10) + (op - 69)

LocalFunc(k) == CompareFunc(91) + k

CallFunc(k) == LocalFunc(5) + k

ArithFunctions ==
    [i \in 1 .. Len(Ops32) |->
        Func(<<"I32", "I32">>, <<>>, <<"I32">>, BinaryCode(Ops32[i]),
             { <<ValI32(a), ValI32(b)>> : a, b \in ArgVals32 })]
    \o
    [i \in 1 .. Len(Ops64) |->
        Func(<<"I64", "I64">>, <<>>, <<"I64">>, BinaryCode(Ops64[i]),
             { <<ValI64(a), ValI64(b)>> :
                 a, b \in IF Ops64[i] \in {127, 128, 129, 130} THEN ArgVals64
                          ELSE WideArgVals64 })]

\* base addresses: the start of the memory, around its last bytes (one page
\* ends at 65536) and the top of the 32-bit range
Bases ==
    { Word32(0, n) : n \in {0, 8, 65528, 65529, 65531, 65532, 65533, 65534, 65535} }
    \cup { Word32(1, 0), Word32(65535, 65532), Word32(65535, 65535) }

\* a value with a zero byte and the sign bit of every narrower store set
Pattern32 == Word32(33024, 41908)

Pattern64 == Word32(1798, 1416) \cup { i + 32 : i \in Word32(33282, 900) }

IsWide(op) == OpcodeOf(op) \in {"I64Load", "I64Load8S", "I64Load8U", "I64Load16S",
                                "I64Load16U", "I64Load32S", "I64Load32U", "I64Store",
                                "I64Store8", "I64Store16", "I64Store32"}

\* three-parameter bodies (address, value, x) that store the value at the address
\* and then:  divide the value by x;  store the value at x;  load from x;
\* call the body before with the same three;  and a body that asks for the size
SequenceFunctions ==
    << Func(<<"I32", "I32", "I32">>, <<>>, <<"I32">>,
            <<32, 0, 32, 1, 54, 2, 0, 32, 1, 32, 2, 110, 11>>,
            { <<ValI32(Word32(0, a)), ValI32(Pattern32), I32(d)>> :
                a \in {8, 65532}, d \in {0, 3} }),
       Func(<<"I32", "I32", "I32">>, <<>>, <<>>,
            <<32, 0, 32, 1, 54, 2, 0, 32, 2, 32, 1, 54, 2, 0, 11>>,
            { <<ValI32(Word32(0, a)), ValI32(Pattern32), ValI32(b)>> :
                a \in {8, 65532}, b \in { Word32(0, 10), Word32(0, 65533), Word32(1, 0) } }),
       Func(<<"I32", "I32", "I32">>, <<>>, <<"I32">>,
            <<32, 0, 32, 1, 54, 2, 0, 32, 2, 40, 2, 0, 11>>,
            { <<ValI32(Word32(0, a)), ValI32(Pattern32), ValI32(b)>> :
                a \in {8, 65532}, b \in { Word32(0, 8), Word32(0, 65533) } }),
       Func(<<"I32", "I32", "I32">>, <<>>, <<"I32">>,
            <<32, 0, 65, 1, 58, 0, 0, 32, 0, 32, 1, 32, 2,
              16, SequenceFunc(2), 11>>,
            { <<ValI32(Word32(0, a)), ValI32(Pattern32), ValI32(b)>> :
                a \in {16, 65532}, b \in { Word32(0, 16), Word32(0, 65533) } }),
       Func(<<>>, <<>>, <<"I32">>, <<63, 0, 11>>, {<<>>}) >>

\* local.get 0; <load> align offset; end
LoadFunctions ==
    [i \in 1 .. (Len(LoadOps) * Len(Offsets)) |->
        LET op == LoadOps[((i - 1) \div Len(Offsets)) + 1]
            offset == Offsets[((i - 1) % Len(Offsets)) + 1]
        IN  Func(<<"I32">>, <<>>, <<IF IsWide(op) THEN "I64" ELSE "I32">>,
                 <<32, 0, op, 0, offset, 11>>, { <<ValI32(a)>> : a \in Bases })]

\* local.get 0; local.get 1; <store> align offset; end
StoreFunctions ==
    [i \in 1 .. (Len(StoreOps) * Len(Offsets)) |->
        LET op == StoreOps[((i - 1) \div Len(Offsets)) + 1]
            offset == Offsets[((i - 1) % Len(Offsets)) + 1]
        IN  IF IsWide(op)
            THEN Func(<<"I32", "I64">>, <<>>, <<>>, <<32, 0, 32, 1, op, 0, offset, 11>>,
                      { <<ValI32(a), ValI64(v)>> : a \in Bases, v \in {Pattern64} })
            ELSE Func(<<"I32", "I32">>, <<>>, <<>>, <<32, 0, 32, 1, op, 0, offset, 11>>,
                      { <<ValI32(a), ValI32(v)>> : a \in Bases, v \in {Pattern32} })]

MemoryFunctions == SequenceFunctions \o LoadFunctions \o StoreFunctions

\* bodies that end with two cells, or none, for one declared result, by `end`
\* and by `return`, and a body without a result that ends with a cell
ResultFunctions ==
    << Func(<<>>, <<>>, <<"I32">>, <<65, 1, 65, 2, 11>>, {<<>>}),
       Func(<<>>, <<>>, <<"I32">>, <<65, 1, 65, 2, 15, 11>>, {<<>>}),
       Func(<<>>, <<>>, <<>>, <<65, 7, 11>>, {<<>>}),
       Func(<<>>, <<>>, <<"I32">>, <<11>>, {<<>>}),
       Func(<<>>, <<>>, <<"I32">>, <<15, 11>>, {<<>>}) >>

\* bodies that execute an opcode `run` has no arm for:
\* i32.const 5; global.set 0; global.get 0  --  global.get 0  --
\* i32.const 0; memory.grow  --  i32.const 0; call_indirect 0 0  --
\* i32.const 0; f32.load  --  i32.const 1; i32.const 2; f32.add  --
\* i32.const 1; f64.abs  --  and a body that calls the memory.grow one
UnimplementedFunctions ==
    << Func(<<>>, <<>>, <<"I32">>, <<65, 5, 36, 0, 35, 0, 11>>, {<<>>}),
       Func(<<>>, <<>>, <<"I32">>, <<35, 0, 11>>, {<<>>}),
       Func(<<>>, <<>>, <<"I32">>, <<65, 0, 64, 0, 11>>, {<<>>}),
       Func(<<>>, <<>>, <<"I32">>, <<65, 0, 17, 0, 0, 11>>, {<<>>}),
       Func(<<>>, <<>>, <<"I32">>, <<65, 0, 42, 2, 0, 11>>, {<<>>}),
       Func(<<>>, <<>>, <<"I32">>, <<65, 1, 65, 2, 146, 11>>, {<<>>}),
       Func(<<>>, <<>>, <<"I32">>, <<65, 1, 153, 11>>, {<<>>}),
       Func(<<>>, <<>>, <<"I32">>,
            <<65, 1, 16, UnimplementedFunc(2), 106, 11>>, {<<>>}) >>

\* 64-bit operands whose low 8, 16 and 32 bits have either sign and whose
\* upper bits are clear, set or mixed
ConvertArgs ==
    { {}, FromNat(127), {7}, FromNat(255), FromNat(383), FromNat(32767), {15},
      FromNat(65535), FromNat(98303), 0 .. 30, {31}, 0 .. 31, {32}, {7, 32}, {15, 40},
      0 .. 63, {63}, (0 .. 63) \ {7}, (0 .. 63) \ {15}, (0 .. 63) \ {31}, Pattern64 }

\* local.get 0; i32.wrap_i64; <op>; end  and  local.get 0; <op>; end
ConvertFunctions ==
    [i \in 1 .. Len(Narrow) |->
        Func(<<"I64">>, <<>>, <<IF Narrow[i] >= 192 THEN "I32" ELSE "I64">>,
             <<32, 0, 167, Narrow[i], 11>>, { <<ValI64(x)>> : x \in ConvertArgs })]
    \o
    [i \in 1 .. Len(Wide) |->
        Func(<<"I64">>, <<>>, <<"I64">>, <<32, 0, Wide[i], 11>>,
             { <<ValI64(x)>> : x \in ConvertArgs })]

\* seven bodies (the first at index FirstWrap) that wrap their 64-bit argument
\* and hand the cell to: the function result; i32.add; i32.store; local.set and
\* local.get; a call (of the first body but one, which returns its parameter);
\* `if`.  (i64.extend_i32_s / _u are consumers in ConvertFunctions.)
WrapFunctions ==
    << Func(<<"I64">>, <<>>, <<"I32">>, <<32, 0, 167, 11>>,
            { <<ValI64(x)>> : x \in ConvertArgs }),
       Func(<<"I64">>, <<>>, <<"I32">>, <<32, 0, 167, 65, 1, 106, 11>>,
            { <<ValI64(x)>> : x \in ConvertArgs }),
       Func(<<"I64">>, <<>>, <<"I64">>,
            <<65, 8, 32, 0, 167, 54, 2, 0, 65, 8, 41, 3, 0, 11>>,
            { <<ValI64(x)>> : x \in ConvertArgs }),
       Func(<<"I64">>, <<"I32">>, <<"I32">>, <<32, 0, 167, 33, 1, 32, 1, 11>>,
            { <<ValI64(x)>> : x \in ConvertArgs }),
       Func(<<"I64">>, <<>>, <<"I32">>, <<32, 0, 167, 16, FirstWrap + 5, 11>>,
            { <<ValI64(x)>> : x \in ConvertArgs }),
       Func(<<"I32">>, <<>>, <<"I32">>, <<32, 0, 11>>, {}),
       Func(<<"I64">>, <<>>, <<"I32">>, <<32, 0, 167, 4, 127, 65, 1, 5, 65, 0, 11, 11>>,
            { <<ValI64(x)>> : x \in ConvertArgs }) >>

\* operands and counts of the rotations: counts around the width, with bits
\* above the low 5 or 6, and 64-bit counts with bits above the low 32
RotateArgs32 ==
    { <<ValI32(a), ValI32(b)>> :
        a \in { Word32(57005, 48879), FromInt(1, 32), {31} },
        b \in { FromInt(0, 32), FromInt(1, 32), FromInt(31, 32), FromInt(32, 32),
                FromInt(33, 32), FromInt(-1, 32), {31}, Word32(1, 4) } }

RotateArgs64 ==
    { <<ValI64(a), ValI64(b)>> :
        a \in { Pattern64, FromInt(1, 64), {63} },
        b \in { FromInt(0, 64), FromInt(1, 64), FromInt(63, 64), FromInt(64, 64),
                FromInt(65, 64), FromInt(-1, 64), {63}, {32}, {0, 32}, {5, 31, 40} } }

\* local.get 0; local.get 1; <rotation>; end
RotateFunctions ==
    [i \in 1 .. Len(Rotations) |->
        IF Rotations[i] < 124
        THEN Func(<<"I32", "I32">>, <<>>, <<"I32">>, BinaryCode(Rotations[i]), RotateArgs32)
        ELSE Func(<<"I64", "I64">>, <<>>, <<"I64">>, BinaryCode(Rotations[i]), RotateArgs64)]

\* bodies of structured control, each with one i32 parameter:
\*  0  block  local.get 0  if (i32)  block nop end  i32.const 10  else  i32.const 20
\*     end  local.set 0  end  local.get 0  end
\*  1  local.get 0  if  nop  else  nop  end  i32.const 5  end
\*  2  local.get 0  if (i32)  i32.const 7  br 0  else  i32.const 8  end  end
\*  3  local.get 0  if (i32)  i32.const 1  i32.const 2  else  i32.const 3  end  end
\*  4  i32.const 9  local.get 0  if (i32)  i32.const 1  else  i32.const 2  end
\*     i32.add  end
\*  5  block (i32)  i32.const 1  block  i32.const 2  i32.const 3  local.get 0
\*     br_if 1  drop  drop  end  end  end
\* and, with P the sequence  local.get 0  if (i32)  i32.const 1  end,  which
\* leaves one cell when the parameter is not zero and none when it is:
\*  6  P  drop  i32.const 7  end            7  i32.const 1  i32.const 2  P  select  end
\*  8  i32.const 5  P  i32.add  end         9  P  P  i32.add  end
\* 10  P  i32.eqz  end                     11  P  i32.extend8_s  end
\* 12  P  i32.wrap_i64  i32.const 7  end   13  P  local.set 0  i32.const 7  end
\* 14  i32.const 8  P  i32.store  i32.const 7  end
\* 15  P  if  nop  end  i32.const 7  end   16  block  P  br_if 0  end  i32.const 7  end
MaybeCell == <<32, 0, 4, 127, 65, 1, 11>>

FewCellsFunctions ==
    [i \in 1 .. 11 |->
        Func(<<"I32">>, <<>>, <<"I32">>,
             << MaybeCell \o <<26, 65, 7, 11>>,
                <<65, 1, 65, 2>> \o MaybeCell \o <<27, 11>>,
                <<65, 5>> \o MaybeCell \o <<106, 11>>,
                MaybeCell \o MaybeCell \o <<106, 11>>,
                MaybeCell \o <<69, 11>>,
                MaybeCell \o <<192, 11>>,
                MaybeCell \o <<167, 65, 7, 11>>,
                MaybeCell \o <<33, 0, 65, 7, 11>>,
                <<65, 8>> \o MaybeCell \o <<54, 2, 0, 65, 7, 11>>,
                MaybeCell \o <<4, 64, 1, 11, 65, 7, 11>>,
                <<2, 64>> \o MaybeCell \o <<13, 0, 11, 65, 7, 11>> >>[i],
             { <<I32(0)>>, <<I32(1)>> })]

\* local.get 0  local.get 1  local.get 2  select  end   and
\* local.get 0  local.get 1  drop  end
SelectFunctions ==
    << Func(<<"I64", "I64", "I32">>, <<>>, <<"I64">>, <<32, 0, 32, 1, 32, 2, 27, 11>>,
            { <<ValI64(Pattern64), ValI64(b), ValI32(cc)>> :
                b \in { {63}, FromInt(7, 64) },
                cc \in { FromInt(0, 32), FromInt(1, 32), {31}, Word32(1, 0) } }),
       Func(<<"I64", "I64">>, <<>>, <<"I64">>, <<32, 0, 32, 1, 26, 11>>,
            { <<ValI64(Pattern64), ValI64(b)>> : b \in { {63}, FromInt(7, 64) } }) >>

\* each store with the zero-extending load of its width
StoreLoadOps == << <<54, 40>>, <<55, 41>>, <<58, 45>>, <<59, 47>>, <<60, 49>>, <<61, 51>>,
                  <<62, 53>> >>

\* local.get 0  local.get 1  <store> 0 4  local.get 0  <load> 0 4  end
StoreLoadFunctions ==
    [i \in 1 .. Len(StoreLoadOps) |->
        LET st == StoreLoadOps[i][1]
            ld == StoreLoadOps[i][2]
            code == <<32, 0, 32, 1, st, 0, 4, 32, 0, ld, 0, 4, 11>>
            bases == { Word32(0, n) : n \in {0, 2, 65524, 65531} }
        IN  IF IsWide(st)
            THEN Func(<<"I32", "I64">>, <<>>, <<"I64">>, code,
                      { <<ValI32(a), ValI64(v)>> : a \in bases, v \in {Pattern64, {8, 63}} })
            ELSE Func(<<"I32", "I32">>, <<>>, <<"I32">>, code,
                      { <<ValI32(a), ValI32(v)>> : a \in bases, v \in {Pattern32, {8, 31}} })]

\* the loads that read fewer bits than they push
ExtendingLoads == <<44, 45, 46, 47, 48, 49, 50, 51, 52, 53>>

\* the 32-bit words the bodies below put in memory: every byte under a second
\* byte that is not zero, and halves and words around the sign bit
Words(op) ==
    CASE op \in {44, 45, 48, 49} -> { FromNat(n) \cup {9} : n \in 0 .. 255 }
      [] op \in {46, 47, 50, 51} ->
            { Word32(21845, n) : n \in {0, 128, 255, 256, 32767, 32768, 65535} }
      [] op \in {52, 53} -> { Word32(h, 4660) : h \in {0, 128, 32767, 32768, 65535} }

\* i32.const 8  local.get 0  i32.store  i32.const 8  <load> 0 0  end
ExtendingLoadFunctions ==
    [i \in 1 .. Len(ExtendingLoads) |->
        Func(<<"I32">>, <<>>, <<IF IsWide(ExtendingLoads[i]) THEN "I64" ELSE "I32">>,
             <<65, 8, 32, 0, 54, 2, 0, 65, 8, ExtendingLoads[i], 0, 0, 11>>,
             { <<ValI32(v)>> : v \in Words(ExtendingLoads[i]) })]

\* operands around the sign bit and, for 64 bits, on both sides of bit 32
CompareVals(w) ==
    IF w = 32 THEN { FromInt(0, 32), FromInt(1, 32), FromInt(-1, 32), {31}, 0 .. 30,
                     FromInt(7, 32) }
    ELSE { FromInt(0, 64), FromInt(1, 64), FromInt(-1, 64), {63}, 0 .. 62, {32}, {31} }

\* local.get 0  <eqz>  end   and   local.get 0  local.get 1  <comparison>  end
CompareFunctions ==
    [i \in 1 .. 22 |->
        LET op == 68 + i
            t == IF op < 80 THEN "I32" ELSE "I64"
            vals == CompareVals(IF op < 80 THEN 32 ELSE 64)
        IN  IF op \in {69, 80}
            THEN Func(<<t>>, <<>>, <<"I32">>, <<32, 0, op, 11>>,
                      { <<[type |-> t, val |-> a]>> : a \in vals })
            ELSE Func(<<t, t>>, <<>>, <<"I32">>, <<32, 0, 32, 1, op, 11>>,
                      { <<[type |-> t, val |-> a], [type |-> t, val |-> b]>> :
                          a, b \in vals })]

\* 0  (params i32 i64, locals i64 i32)  local.get 1  local.tee 2  drop
\*    local.get 0  local.set 3  local.get 3  end
\* 1  local.get 1  end                    2  i32.const 5  local.set 3  i32.const 1  end
\* 3  i32.const 5  local.tee 1  end       4  local.get 128  end
\* (1 - 4 have one parameter and no declared local)
LocalFunctions ==
    << Func(<<"I32", "I64">>, <<"I64", "I32">>, <<"I32">>,
            <<32, 1, 34, 2, 26, 32, 0, 33, 3, 32, 3, 11>>,
            { <<ValI32(a), ValI64(Pattern64)>> : a \in { FromInt(7, 32), FromInt(-1, 32) } }),
       Func(<<"I32">>, <<>>, <<"I32">>, <<32, 1, 11>>, SmallArgs),
       Func(<<"I32">>, <<>>, <<"I32">>, <<65, 5, 33, 3, 65, 1, 11>>, SmallArgs),
       Func(<<"I32">>, <<>>, <<"I32">>, <<65, 5, 34, 1, 11>>, SmallArgs),
       Func(<<"I32">>, <<>>, <<"I32">>, <<32, 128, 1, 11>>, SmallArgs) >>

\* `call f` for a function index of two LEB128 bytes
BranchFunc(k) == CallFunc(8) + k

ShortCallFunc(k) == BranchFunc(1) + k

CallCode(f) == <<16, 128 + (f % 128), f \div 128>>

\* 0  (params i32 i64, locals i64 i32, result i32)  local.get 0  local.set 3
\*    i64.const 9  local.set 1  block  local.get 3  br_if 0  i32.const 1
\*    local.set 0  end  local.get 0  end
\* 1  (param i32, local i64, result i32)  i32.const 100  block (i32)  i32.const 50
\*    local.get 0  i64.const -2  call 0  i32.add  end  i32.add  end
\* 2  i32.const 7  local.get 0  i32.div_u  end
\* 3  i32.const 1  local.get 0  call 2  i32.add  end
\* 4  i32.const 2  block (i32)  local.get 0  call 3  end  i32.add  end
\* 5  unreachable  i32.const 1  end
\* 6  i32.const 1  call 5  i32.add  end
\* 7  i32.const 2  call 6  i32.add  end
CallFunctions ==
    << Func(<<"I32", "I64">>, <<"I64", "I32">>, <<"I32">>,
            <<32, 0, 33, 3, 66, 9, 33, 1, 2, 64, 32, 3, 13, 0, 65, 1, 33, 0, 11, 32, 0, 11>>,
            {}),
       Func(<<"I32">>, <<"I64">>, <<"I32">>,
            <<65, 228, 0, 2, 127, 65, 50, 32, 0, 66, 126>> \o CallCode(CallFunc(0))
                \o <<106, 11, 106, 11>>,
            SmallArgs),
       Func(<<"I32">>, <<>>, <<"I32">>, <<65, 7, 32, 0, 110, 11>>, {}),
       Func(<<"I32">>, <<>>, <<"I32">>,
            <<65, 1, 32, 0>> \o CallCode(CallFunc(2)) \o <<106, 11>>, {}),
       Func(<<"I32">>, <<>>, <<"I32">>,
            <<65, 2, 2, 127, 32, 0>> \o CallCode(CallFunc(3)) \o <<11, 106, 11>>,
            SmallArgs),
       Func(<<>>, <<>>, <<"I32">>, <<0, 65, 1, 11>>, {}),
       Func(<<>>, <<>>, <<"I32">>, <<65, 1>> \o CallCode(CallFunc(5)) \o <<106, 11>>, {}),
       Func(<<>>, <<>>, <<"I32">>, <<65, 2>> \o CallCode(CallFunc(6)) \o <<106, 11>>,
            {<<>>}) >>

\* a loop inside a block (i32) above one cell, left by a second taken br_if 0:
\*    i32.const 5  block (i32)  loop  local.get 0  i32.const 1  i32.sub
\*    local.tee 0  br_if 0  end  i32.const 9  end  i32.add  end
BranchFunctions ==
    << Func(<<"I32">>, <<>>, <<"I32">>,
            <<65, 5, 2, 127, 3, 64, 32, 0, 65, 1, 107, 34, 0, 13, 0, 11, 65, 9, 11,
              106, 11>>,
            {<<I32(3)>>}) >>

\* calls that cannot start, with P the sequence
\* local.get 0  if (i32)  i32.const 1  end:
\* 0  i32.const 3  call 300  end             (no function 300)
\* 1  P  call CallFunc(2)  end               (a callee with one parameter)
\* 2  P  i32.const 2  call 0  end            (the import, with two parameters)
ShortCallFunctions ==
    << Func(<<>>, <<>>, <<"I32">>, <<65, 3>> \o CallCode(300) \o <<11>>, {<<>>}),
       Func(<<"I32">>, <<>>, <<"I32">>, MaybeCell \o CallCode(CallFunc(2)) \o <<11>>,
            { <<I32(0)>>, <<I32(1)>> }),
       Func(<<"I32">>, <<>>, <<"I32">>, MaybeCell \o <<65, 2, 16, 0, 11>>,
            { <<I32(0)>>, <<I32(1)>> }) >>

StructureFunctions ==
    << Func(<<"I32">>, <<>>, <<"I32">>,
            <<2, 64, 32, 0, 4, 127, 2, 64, 1, 11, 65, 10, 5, 65, 20, 11, 33, 0, 11,
              32, 0, 11>>, SmallArgs),
       Func(<<"I32">>, <<>>, <<"I32">>, <<32, 0, 4, 64, 1, 5, 1, 11, 65, 5, 11>>,
            SmallArgs),
       Func(<<"I32">>, <<>>, <<"I32">>, <<32, 0, 4, 127, 65, 7, 12, 0, 5, 65, 8, 11, 11>>,
            SmallArgs),
       Func(<<"I32">>, <<>>, <<"I32">>, <<32, 0, 4, 127, 65, 1, 65, 2, 5, 65, 3, 11, 11>>,
            SmallArgs),
       Func(<<"I32">>, <<>>, <<"I32">>,
            <<65, 9, 32, 0, 4, 127, 65, 1, 5, 65, 2, 11, 106, 11>>, SmallArgs),
       Func(<<"I32">>, <<>>, <<"I32">>,
            <<2, 127, 65, 1, 2, 64, 65, 2, 65, 3, 32, 0, 13, 1, 26, 26, 11, 11, 11>>,
            SmallArgs) >>

Functions ==
    ControlFunctions \o ArithFunctions \o MemoryFunctions \o ResultFunctions
    \o UnimplementedFunctions \o ConvertFunctions \o WrapFunctions \o RotateFunctions
    \o StructureFunctions \o FewCellsFunctions \o SelectFunctions \o StoreLoadFunctions
    \o ExtendingLoadFunctions \o CompareFunctions \o LocalFunctions \o CallFunctions
    \o BranchFunctions \o ShortCallFunctions

\* the index helpers agree with the order of the bodies in Functions
IndexSpace ==
    /\ BinaryFunc(106) = Len(ControlFunctions)
    /\ SequenceFunc(0) = Len(ControlFunctions) + Len(ArithFunctions)
    /\ LoadFunc(40, 0) = SequenceFunc(Len(SequenceFunctions))
    /\ StoreFunc(54, 0) = LoadFunc(40, 0) + Len(LoadFunctions)
    /\ ResultFunc(0) = SequenceFunc(Len(MemoryFunctions))
    /\ UnimplementedFunc(0) = ResultFunc(Len(ResultFunctions))
    /\ ConvertFunc(172) = UnimplementedFunc(Len(UnimplementedFunctions))
    /\ FirstWrap = ConvertFunc(172) + Len(ConvertFunctions)
    /\ RotateFunc(119) = FirstWrap + Len(WrapFunctions)
    /\ StructureFunc(0) = RotateFunc(119) + Len(RotateFunctions)
    /\ SelectFunc(0) = StructureFunc(0) + Len(StructureFunctions) + Len(FewCellsFunctions)
    /\ StoreLoadFunc(0) = SelectFunc(0) + Len(SelectFunctions)
    /\ ExtendingLoadFunc(0) = StoreLoadFunc(0) + Len(StoreLoadFunctions)
    /\ CompareFunc(69) = ExtendingLoadFunc(0) + Len(ExtendingLoadFunctions)
    /\ LocalFunc(0) = CompareFunc(69) + Len(CompareFunctions)
    /\ CallFunc(0) = LocalFunc(0) + Len(LocalFunctions)
    /\ BranchFunc(0) = CallFunc(0) + Len(CallFunctions)
    /\ ShortCallFunc(0) = BranchFunc(0) + Len(BranchFunctions)
    /\ Len(Functions) = ShortCallFunc(0) + Len(ShortCallFunctions)

\* a memory whose data segments fill its first and its last eight bytes
DataMemory ==
    [present |-> TRUE, pages |-> 1,
     bytes |-> { <<0, 128>>, <<1, 255>>, <<2, 127>>, <<3, 1>>, <<4, 254>>, <<6, 128>>,
                 <<7, 85>>, <<65528, 1>>, <<65529, 2>>, <<65530, 3>>, <<65531, 132>>,
                 <<65532, 5>>, <<65533, 6>>, <<65534, 7>>, <<65535, 136>> }]

\* the memories an invocation is started on
Memories(inv) ==
    IF inv.func = StructureFunc(14) THEN {FreshMemory, NoMemory}
    ELSE IF inv.func >= ExtendingLoadFunc(0) THEN {FreshMemory}
    ELSE IF inv.func >= StoreLoadFunc(0) THEN {FreshMemory, DataMemory}
    ELSE IF inv.func \notin SequenceFunc(0) .. (ResultFunc(0) - 1) THEN {FreshMemory}
    ELSE {FreshMemory, DataMemory}
         \cup (IF inv.func >= SequenceFunc(4) /\ (inv.args = <<>> \/ inv.args[1].val = {})
               THEN {NoMemory} ELSE {})

\* the WasmBlockInfo of every defined function, computed once at load time
BlockInfos ==
    [i \in DOMAIN Functions |->
        IF Functions[i].imported THEN AnalyzeFailed
        ELSE analyze(Functions, Functions[i].code)]

Invocations ==
    UNION { { [func |-> i - 1, args |-> a] : a \in Functions[i].inputs } :
            i \in DOMAIN Functions }

(***************************************************************************)
(* The interpreter state                                                   *)
(***************************************************************************)
\* the activation `run` starts for function f with the given locals
\* (a sequence of WasmValue): the code block it is handed (the bytes of the body
\* and their block info, cursor at 0), the result types, empty stacks
Activation(f, locals) ==
    [func |-> f, position |-> 0, value_stack |-> <<>>, block_stack |-> <<>>,
     locals |-> [i \in DOMAIN locals |-> from_value(locals[i])],
     code |-> Functions[f + 1].code, info |-> BlockInfos[f + 1],
     result_types |-> Functions[f + 1].result_types]

Defaults(f) == [i \in DOMAIN Functions[f + 1].local_types |->
                    default_for(Functions[f + 1].local_types[i])]

\* the record of an invocation that starts on memory `before`
Started(inv, before) ==
    [invocation |-> inv, before |-> before, status |-> "running", result |-> ValEmpty,
     error |-> "None", after |-> before]

\* the module of Spec is instantiated and invoked by an embedder of its own
NoRunner ==
    [imports |-> <<>>, option_d |-> FALSE, phase |-> "none", callables |-> <<>>,
     error |-> "None"]

Init ==
    /\ invocation \in Invocations
    /\ overflow_checks \in BOOLEAN
    /\ frames = <<Activation(invocation.func, invocation.args \o Defaults(invocation.func))>>
    /\ status = "running"
    /\ result = ValEmpty
    /\ error = "None"
    /\ memory \in Memories(invocation)
    /\ code_blocks = [i \in DOMAIN Functions |-> 0]
    /\ runs = <<Started(invocation, memory)>>
    /\ runner = NoRunner

Top == frames[Len(frames)]

Code == Top.code

Info == Top.info

\* a reset that leaves the cursor where the run before stopped
reset_Keeps(position) == position

\* WasmCodeBlock::reset: the cursor back at the first byte
reset(position) == 0

Running == status = "running" /\ frames # <<>> /\ HasByte(Code, Top.position)

\* read_opcode
Opcode == OpcodeOf(ByteAt(Code, Top.position))

\* the position after the opcode byte
P1 == Top.position + 1

\* the top n cells of a stack removed
Pop(stack, n) == SubSeq(stack, 1, Len(stack) - n)

Peek(stack) == stack[Len(stack)]

\* a resize that leaves the stack as it is
Resize_Keeps(stack, new_len) == stack

\* Vec::resize(new_len, 0)
Resize(stack, new_len) ==
    IF new_len <= Len(stack) THEN SubSeq(stack, 1, new_len)
    ELSE stack \o [i \in 1 .. (new_len - Len(stack)) |-> from_usize({})]

(***************************************************************************)
(* How a handler ends                                                      *)
(***************************************************************************)
\* the handler completes and the dispatch loop goes on with activation fr
Continue(fr) ==
    /\ frames' = [frames EXCEPT ![Len(frames)] = fr]
    /\ UNCHANGED <<runner, invocation, overflow_checks, status, result, error,
                   memory, code_blocks, runs>>

\* the outermost `run` returns to the embedder: its code block keeps the cursor
\* it stopped at (past the opcode read last, or past the call that is under way),
\* and the module its memory
Returned(st, res, err, mem) ==
    /\ frames' = <<>>
    /\ status' = st
    /\ result' = res
    /\ error' = err
    /\ memory' = mem
    /\ code_blocks' = [code_blocks EXCEPT ![frames[1].func + 1] =
                            IF Len(frames) = 1 THEN P1 ELSE frames[1].position]
    /\ runs' = [runs EXCEPT ![Len(runs)] =
                    [@ EXCEPT !.status = st, !.result = res, !.error = err, !.after = mem]]
    /\ UNCHANGED <<runner, invocation, overflow_checks>>

\* an error that ends the callee only: its caller goes on after the call
Trap_ToCaller(kind) ==
    IF Len(frames) > 1
    THEN /\ frames' = SubSeq(frames, 1, Len(frames) - 1)
         /\ UNCHANGED <<runner, invocation, overflow_checks, status, result, error,
                        memory, code_blocks, runs>>
    ELSE Returned("Err", result, kind, memory)

\* `return Err(kind)` / `?`: every enclosing `run` returns the error in turn
Trap(kind) == Returned("Err", result, kind, memory)

\* a Rust panic: the process unwinds out of the interpreter
Panic == Returned("panic", result, error, memory)

\* the tail of `run` after the dispatch loop is left: the result of activation fr
RunResult(fr) ==
    LET result_types == fr.result_types
    IN  IF result_types = <<>> THEN [ok |-> TRUE, value |-> ValEmpty, error |-> "None"]
        ELSE IF fr.value_stack = <<>>
             THEN [ok |-> FALSE, value |-> ValEmpty, error |-> "InternalInconsistency"]
        ELSE CASE result_types[1] = "I32" ->
                    [ok |-> TRUE, value |-> ValI32(get_i32(Peek(fr.value_stack))),
                     error |-> "None"]
               [] result_types[1] = "I64" ->
                    [ok |-> TRUE, value |-> ValI64(get_i64(Peek(fr.value_stack))),
                     error |-> "None"]
               [] OTHER -> [ok |-> FALSE, value |-> ValEmpty, error |-> "InvalidParameter"]

\* a caller that pushes a cell for every callee, also for one without a result
PushResult_Always(caller, value) ==
    [caller EXCEPT !.value_stack = Append(@, from_value(value))]

\* the end of the Call handler, once the callee's `run` has returned Ok(value)
PushResult(caller, value) ==
    IF value.type = "Empty" THEN caller
    ELSE [caller EXCEPT !.value_stack = Append(@, from_value(value))]

\* `break`: activation fr returns; the embedder gets its result, or the calling
\* activation (the Call handler, behind its `run(...)?`) pushes it if non-empty
Break(fr) ==
    LET r == RunResult(fr)
        caller == frames[Len(frames) - 1]
    IN  IF ~r.ok THEN Trap(r.error)
        ELSE IF Len(frames) = 1
        THEN Returned("Ok", r.value, error, memory)
        ELSE /\ frames' = Append(SubSeq(frames, 1, Len(frames) - 2),
                                 PushResult(caller, r.value))
             /\ UNCHANGED <<runner, invocation, overflow_checks, status, result, error,
                            memory, code_blocks, runs>>

\* how a helper that may fail ends: with the activation to go on with, an error
\* or a panic
Done(fr) == [kind |-> "ok", frame |-> fr, error |-> "None"]

Failed(kind) == [kind |-> "err", frame |-> Top, error |-> kind]

Panicked == [kind |-> "panic", frame |-> Top, error |-> "None"]

Outcome(o) ==
    CASE o.kind = "ok" -> Continue(o.frame)
      [] o.kind = "err" -> Trap(o.error)
      [] OTHER -> Panic

\* the error `?` propagates when a code block read (an immediate) runs off the
\* end of the bytecode
ReadError == "InvalidBytecode"

(***************************************************************************)
(* WasmInterpreter::branch                                                 *)
(***************************************************************************)
\* a branch that leaves the entry of its target on the block stack
branch_KeepsTarget(target, fr) ==
    IF target >= Len(fr.block_stack) THEN Failed("InternalInconsistency")
    ELSE
    LET resized == SubSeq(fr.block_stack, 1, Len(fr.block_stack) - target)
        block == block_info(fr.info, Peek(resized))
    IN  IF block.block_type = "Empty"
        THEN Done([fr EXCEPT !.block_stack = resized,
                             !.value_stack = Resize(@, block.stack_level),
                             !.position = preferred_target(block)])
        ELSE IF fr.value_stack = <<>> THEN Failed("InternalInconsistency")
        ELSE Done([fr EXCEPT !.block_stack = resized,
                             !.value_stack =
                                Append(Resize(Pop(@, 1), block.stack_level), Peek(@)),
                             !.position = preferred_target(block)])

\* `block_stack.len() - target` underflows when target exceeds the length: a panic
\* with overflow checks, and without them a resize to nearly 2^64 entries, which
\* panics with a capacity overflow
branch(target, fr) ==
    IF target > Len(fr.block_stack) THEN Panicked
    ELSE
    LET resized == SubSeq(fr.block_stack, 1, Len(fr.block_stack) - target)
    IN  IF resized = <<>> THEN Failed("InternalInconsistency")
        ELSE
        LET block_position == Peek(resized)
            info == fr.info
        IN  IF ~HasBlockInfo(info, block_position) THEN Failed("InternalInconsistency")
            ELSE
            LET block == block_info(info, block_position)
                new_len == block.stack_level
                new_position == preferred_target(block)
            IN  IF block.block_type = "Empty"
                THEN Done([fr EXCEPT !.block_stack = Pop(resized, 1),
                                     !.value_stack = Resize(@, new_len),
                                     !.position = new_position])
                ELSE IF fr.value_stack = <<>> THEN Failed("InternalInconsistency")
                ELSE Done([fr EXCEPT !.block_stack = Pop(resized, 1),
                                     !.value_stack =
                                        Append(Resize(Pop(@, 1), new_len), Peek(@)),
                                     !.position = new_position])

(***************************************************************************)
(* The handlers of the dispatch loop of WasmInterpreter::run, one action   *)
(* per match arm                                                           *)
(***************************************************************************)
Nop ==
    /\ Running /\ Opcode = "Nop"
    /\ Continue([Top EXCEPT !.position = P1])

Block ==
    /\ Running /\ Opcode = "Block"
    /\ LET sig == read_uint(Code, P1)
       IN  IF ~sig.ok THEN Trap(ReadError)
           ELSE Continue([Top EXCEPT !.position = sig.next,
                                     !.block_stack = Append(@, sig.next)])

Loop ==
    /\ Running /\ Opcode = "Loop"
    /\ LET sig == read_uint(Code, P1)
       IN  IF ~sig.ok THEN Trap(ReadError)
           ELSE Continue([Top EXCEPT !.position = sig.next,
                                     !.block_stack = Append(@, sig.next)])

\* an `if` that pushes its block also when it skips to the end
If_PushesAlways ==
    /\ Running /\ Opcode = "If"
    /\ LET sig == read_uint(Code, P1)
           position == sig.next
       IN  IF ~sig.ok THEN Trap(ReadError)
           ELSE IF Top.value_stack = <<>> THEN Trap("InternalInconsistency")
           ELSE
           LET cc == get_bool(Peek(Top.value_stack))
               popped == [Top EXCEPT !.position = position, !.value_stack = Pop(@, 1),
                                     !.block_stack = Append(@, position)]
           IN  IF cc THEN Continue(popped)
               ELSE IF ~HasBlockInfo(Info, position) THEN Trap("InternalInconsistency")
               ELSE
               LET block == block_info(Info, position)
               IN  IF block.else_position # 0
                   THEN Continue([popped EXCEPT !.position = block.else_position])
                   ELSE Continue([popped EXCEPT !.position = block.end_position])

If ==
    /\ Running /\ Opcode = "If"
    /\ LET sig == read_uint(Code, P1)
           position == sig.next
       IN  IF ~sig.ok THEN Trap(ReadError)
           ELSE IF Top.value_stack = <<>> THEN Trap("InternalInconsistency")
           ELSE
           LET cc == get_bool(Peek(Top.value_stack))
               popped == [Top EXCEPT !.position = position, !.value_stack = Pop(@, 1)]
           IN  IF cc THEN Continue([popped EXCEPT !.block_stack = Append(@, position)])
               ELSE IF ~HasBlockInfo(Info, position) THEN Trap("InternalInconsistency")
               ELSE
               LET block == block_info(Info, position)
               IN  IF block.else_position # 0
                   THEN Continue([popped EXCEPT !.block_stack = Append(@, position),
                                                !.position = block.else_position])
                   ELSE Continue([popped EXCEPT !.position = block.end_position])

\* an `else` that goes on with the next instruction
Else_FallsThrough ==
    /\ Running /\ Opcode = "Else"
    /\ Continue([Top EXCEPT !.position = P1])

Else ==
    /\ Running /\ Opcode = "Else"
    /\ Outcome(branch(0, [Top EXCEPT !.position = P1]))

End ==
    /\ Running /\ Opcode = "End"
    /\ IF Top.block_stack = <<>> THEN Break(Top)
       ELSE Continue([Top EXCEPT !.position = P1, !.block_stack = Pop(@, 1)])

Br ==
    /\ Running /\ Opcode = "Br"
    /\ LET target == read_uint(Code, P1)
       IN  IF ~target.ok THEN Trap(ReadError)
           ELSE Outcome(branch(target.val, [Top EXCEPT !.position = target.next]))

\* a br_if that branches with its condition still on the operand stack
BrIf_KeepsCondition ==
    /\ Running /\ Opcode = "BrIf"
    /\ LET target == read_uint(Code, P1)
       IN  IF ~target.ok THEN Trap(ReadError)
           ELSE IF Top.value_stack = <<>> THEN Trap("InternalInconsistency")
           ELSE
           LET cc == get_bool(Peek(Top.value_stack))
               popped == [Top EXCEPT !.position = target.next, !.value_stack = Pop(@, 1)]
           IN  IF cc THEN Outcome(branch(target.val, [Top EXCEPT !.position = target.next]))
               ELSE Continue(popped)

BrIf ==
    /\ Running /\ Opcode = "BrIf"
    /\ LET target == read_uint(Code, P1)
       IN  IF ~target.ok THEN Trap(ReadError)
           ELSE IF Top.value_stack = <<>> THEN Trap("InternalInconsistency")
           ELSE
           LET cc == get_bool(Peek(Top.value_stack))
               popped == [Top EXCEPT !.position = target.next, !.value_stack = Pop(@, 1)]
           IN  IF cc THEN Outcome(branch(target.val, popped)) ELSE Continue(popped)

\* the label `run` branches to for a popped index cell: it skips index + 1 labels
\* (n_vec + 2 when the index is out of range) and reads the next one
BrTableTarget(code, position, cell) ==
    LET n_vec == read_uint(code, position)
        wide == SignExtend(get_i32(cell), 32, 64)
        index == IF ~IsSmall(wide) \/ ToNat(wide) >= n_vec.val
                 THEN n_vec.val + 1 ELSE ToNat(wide)
        skipped == IF n_vec.ok THEN SkipUints(code, n_vec.next, index + 1) ELSE -1
    IN  IF skipped < 0 THEN [ok |-> FALSE, val |-> 0, next |-> position]
        ELSE read_uint(code, skipped)

BrTable ==
    /\ Running /\ Opcode = "BrTable"
    /\ IF Top.value_stack = <<>> THEN Trap("InternalInconsistency")
       ELSE
       LET target == BrTableTarget(Code, P1, Peek(Top.value_stack))
       IN  IF ~target.ok THEN Trap(ReadError)
           ELSE Outcome(branch(target.val,
                    [Top EXCEPT !.position = target.next, !.value_stack = Pop(@, 1)]))

Return ==
    /\ Running /\ Opcode = "Return"
    /\ Break(Top)

\* callee locals that take the parameters in the order they are popped
CalleeLocals_Reversed(f, value_stack) ==
    LET param_types == Functions[f + 1].param_types
    IN  [i \in DOMAIN param_types |->
            get_by_type(value_stack[Len(value_stack) + 1 - i], param_types[i])]
        \o Defaults(f)

\* the locals of the callee: its parameters, the top cells of the caller's stack
\* tagged by type, then the default of every declared local
CalleeLocals(f, value_stack) ==
    LET param_types == Functions[f + 1].param_types
        new_stack_len == Len(value_stack) - Len(param_types)
    IN  [i \in DOMAIN param_types |->
            get_by_type(value_stack[new_stack_len + i], param_types[i])]
        \o Defaults(f)

\* an imported function has no body: `func.body().unwrap()` panics; so does the
\* todo!() of get_by_type for a parameter that is not I32 or I64
Call ==
    /\ Running /\ Opcode = "Call"
    /\ LET index == read_uint(Code, P1)
       IN  IF ~index.ok THEN Trap(ReadError)
           ELSE IF index.val + 1 \notin DOMAIN Functions THEN Trap("InternalInconsistency")
           ELSE
           LET func == Functions[index.val + 1]
               param_len == Len(func.param_types)
           IN  IF func.imported THEN Panic
               ELSE IF Len(Top.value_stack) < param_len THEN Trap("InternalInconsistency")
               ELSE IF \E i \in DOMAIN func.param_types :
                            func.param_types[i] \notin {"I32", "I64"} THEN Panic
               ELSE /\ frames' =
                         Append([frames EXCEPT ![Len(frames)] =
                                    [Top EXCEPT !.position = index.next,
                                                !.value_stack = Pop(@, param_len)]],
                                Activation(index.val, CalleeLocals(index.val, Top.value_stack)))
                    /\ UNCHANGED <<runner, invocation, overflow_checks, status, result, error,
                                   memory, code_blocks, runs>>

Drop ==
    /\ Running /\ Opcode = "Drop"
    /\ Continue([Top EXCEPT !.position = P1,
                            !.value_stack = IF @ = <<>> THEN @ ELSE Pop(@, 1)])

\* a select that takes the second operand when the condition is not zero
Select_Swapped ==
    /\ Running /\ Opcode = "Select"
    /\ LET stack == Top.value_stack
           n == Len(stack)
       IN  IF n < 3 THEN Trap("InternalInconsistency")
           ELSE Continue([Top EXCEPT !.position = P1,
                            !.value_stack =
                                Append(Pop(stack, 3),
                                       IF get_bool(stack[n]) THEN stack[n - 1]
                                       ELSE stack[n - 2])])

Select ==
    /\ Running /\ Opcode = "Select"
    /\ LET stack == Top.value_stack
           n == Len(stack)
       IN  IF n < 3 THEN Trap("InternalInconsistency")
           ELSE Continue([Top EXCEPT !.position = P1,
                            !.value_stack =
                                Append(Pop(stack, 3),
                                       IF get_bool(stack[n]) THEN stack[n - 2]
                                       ELSE stack[n - 1])])

LocalGet ==
    /\ Running /\ Opcode = "LocalGet"
    /\ LET local_ref == read_uint(Code, P1)
       IN  IF ~local_ref.ok THEN Trap(ReadError)
           ELSE IF local_ref.val + 1 \notin DOMAIN Top.locals
           THEN Trap("InternalInconsistency")
           ELSE Continue([Top EXCEPT !.position = local_ref.next,
                            !.value_stack = Append(@, Top.locals[local_ref.val + 1])])

LocalSet ==
    /\ Running /\ Opcode = "LocalSet"
    /\ LET local_ref == read_uint(Code, P1)
       IN  IF ~local_ref.ok THEN Trap(ReadError)
           ELSE IF local_ref.val + 1 \notin DOMAIN Top.locals \/ Top.value_stack = <<>>
           THEN Trap("InternalInconsistency")
           ELSE Continue([Top EXCEPT !.position = local_ref.next,
                            !.locals[local_ref.val + 1] = Peek(Top.value_stack),
                            !.value_stack = Pop(@, 1)])

\* a local.tee that pops the cell it stores
LocalTee_Pops ==
    /\ Running /\ Opcode = "LocalTee"
    /\ LET local_ref == read_uint(Code, P1)
       IN  IF ~local_ref.ok THEN Trap(ReadError)
           ELSE IF local_ref.val + 1 \notin DOMAIN Top.locals \/ Top.value_stack = <<>>
           THEN Trap("InternalInconsistency")
           ELSE Continue([Top EXCEPT !.position = local_ref.next,
                            !.locals[local_ref.val + 1] = Peek(Top.value_stack),
                            !.value_stack = Pop(@, 1)])

LocalTee ==
    /\ Running /\ Opcode = "LocalTee"
    /\ LET local_ref == read_uint(Code, P1)
       IN  IF ~local_ref.ok THEN Trap(ReadError)
           ELSE IF local_ref.val + 1 \notin DOMAIN Top.locals \/ Top.value_stack = <<>>
           THEN Trap("InternalInconsistency")
           ELSE Continue([Top EXCEPT !.position = local_ref.next,
                            !.locals[local_ref.val + 1] = Peek(Top.value_stack)])

\* `WasmStackValue { i32: val }` writes the low half of the cell only
I32Const ==
    /\ Running /\ Opcode = "I32Const"
    /\ LET val == read_sint(Code, P1)
       IN  IF ~val.ok THEN Trap(ReadError)
           ELSE \E high \in UninitHigh :
                    Continue([Top EXCEPT !.position = val.next,
                                !.value_stack = Append(@, Low(val.val, 32) \cup high)])

I64Const ==
    /\ Running /\ Opcode = "I64Const"
    /\ LET val == read_sint(Code, P1)
       IN  IF ~val.ok THEN Trap(ReadError)
           ELSE Continue([Top EXCEPT !.position = val.next,
                            !.value_stack = Append(@, val.val)])

\* a signed order that takes the patterns as unsigned numbers
SLess_Unsigned(a, b, w) == ULess(Low(a, w), Low(b, w))

\* a < b for the signed w-bit integers a and b
SLess(a, b, w) ==
    IF IsNegative(a, w) # IsNegative(b, w) THEN IsNegative(a, w)
    ELSE ULess(Low(a, w), Low(b, w))

\* the bool a comparison makes of a (popped second) and b (popped first)
Compared(op, a, b) ==
    LET w == Comparisons[op][1]
        x == Low(a, w)
        y == Low(b, w)
        lt == IF Comparisons[op][2] THEN SLess(x, y, w) ELSE ULess(x, y)
        gt == IF Comparisons[op][2] THEN SLess(y, x, w) ELSE ULess(y, x)
        rel == Comparisons[op][3]
    IN  CASE rel = "Eq" -> x = y
          [] rel = "Ne" -> x # y
          [] rel = "Lt" -> lt
          [] rel = "Gt" -> gt
          [] rel = "Le" -> lt \/ x = y
          [] rel = "Ge" -> gt \/ x = y

\* the twenty binary comparisons: pop b, pop a, push WasmStackValue::from(bool)
Compare ==
    /\ Running /\ Opcode \in ComparisonOpcodes
    /\ LET stack == Top.value_stack
           n == Len(stack)
       IN  IF n < 2 THEN Trap("InternalInconsistency")
           ELSE Continue([Top EXCEPT !.position = P1,
                            !.value_stack =
                                Append(Pop(stack, 2),
                                       from_bool(Compared(Opcode, stack[n - 1], stack[n])))])

\* i64.eqz replaces the top cell in place
I64Eqz ==
    /\ Running /\ Opcode = "I64Eqz"
    /\ IF Top.value_stack = <<>> THEN Trap("InternalInconsistency")
       ELSE Continue([Top EXCEPT !.position = P1,
                        !.value_stack[Len(Top.value_stack)] = from_bool(get_i64(@) = {})])

\* i32.eqz replaces the top cell in place (value_stack.last_mut())
I32Eqz ==
    /\ Running /\ Opcode = "I32Eqz"
    /\ IF Top.value_stack = <<>> THEN Trap("InternalInconsistency")
       ELSE Continue([Top EXCEPT !.position = P1,
                        !.value_stack[Len(Top.value_stack)] = from_bool(get_i32(@) = {})])

(***************************************************************************)
(* Loads and stores.  Every handler reads its memarg, takes memory 0 of    *)
(* the module, pops its operands and makes one access of LoadSize(op) or   *)
(* StoreSize(op) bytes at memarg.offset_by(base).                          *)
(***************************************************************************)
\* the read_u8 / read_u16 / read_u32 / read_u64 each load handler calls
LoadSize(op) ==
    CASE op \in {"I32Load8S", "I32Load8U", "I64Load8S", "I64Load8U"} -> 1
      [] op \in {"I32Load16S", "I32Load16U", "I64Load16S", "I64Load16U"} -> 2
      [] op \in {"I32Load", "I64Load32S", "I64Load32U"} -> 4
      [] op = "I64Load" -> 8

\* loads that fill the upper bits with zeros whatever the opcode
LoadedCell_Unsigned(op, val) ==
    IF op \in {"I32Load", "I32Load8S", "I32Load8U", "I32Load16S", "I32Load16U"}
    THEN from_u32(val) ELSE from_u64(val)

\* the cell each load handler pushes for the value `val` it has read
LoadedCell(op, val) ==
    CASE op \in {"I32Load", "I32Load8U", "I32Load16U"} -> from_u32(val)
      [] op = "I32Load8S" -> from_i32(SignExtend(val, 8, 32))
      [] op = "I32Load16S" -> from_i32(SignExtend(val, 16, 32))
      [] op \in {"I64Load", "I64Load8U", "I64Load16U", "I64Load32U"} -> from_u64(val)
      [] op = "I64Load8S" -> from_i64(SignExtend(val, 8, 64))
      [] op = "I64Load16S" -> from_i64(SignExtend(val, 16, 64))
      [] op = "I64Load32S" -> from_i64(SignExtend(val, 32, 64))

Load ==
    /\ Running /\ Opcode \in LoadOpcodes
    /\ LET memarg == read_memarg(Code, P1)
       IN  IF ~memarg.ok THEN Trap(ReadError)
           ELSE IF ~memory.present THEN Trap("OutOfMemory")
           ELSE IF Top.value_stack = <<>> THEN Trap("InternalInconsistency")
           ELSE
           LET offset == get_u32(Peek(Top.value_stack))
               read == read_le(memory, offset_by(memarg, offset), LoadSize(Opcode))
           IN  IF ~read.ok THEN Trap("OutOfBounds")
               ELSE Continue([Top EXCEPT !.position = memarg.next,
                                !.value_stack =
                                    Append(Pop(@, 1), LoadedCell(Opcode, read.val))])

\* the write_u8 / write_u16 / write_u32 / write_u64 each store handler calls
StoreSize(op) ==
    CASE op \in {"I32Store8", "I64Store8"} -> 1
      [] op \in {"I32Store16", "I64Store16"} -> 2
      [] op \in {"I32Store", "I64Store32"} -> 4
      [] op = "I64Store" -> 8

\* the value each store handler takes from the cell it pops first
StoredValue(op, cell) ==
    CASE op \in {"I32Store8", "I64Store8"} -> get_u8(cell)
      [] op \in {"I32Store16", "I64Store16"} -> get_u16(cell)
      [] op \in {"I32Store", "I64Store32"} -> get_u32(cell)
      [] op = "I64Store" -> get_u64(cell)

\* `memory.write_uN(...)?`: the memory is what the write leaves, also when the
\* write fails
\* a store that pops the address first and the value second
Store_AddressFirst ==
    /\ Running /\ Opcode \in StoreOpcodes
    /\ LET memarg == read_memarg(Code, P1)
       IN  IF ~memarg.ok THEN Trap(ReadError)
           ELSE IF ~memory.present THEN Trap("OutOfMemory")
           ELSE IF Len(Top.value_stack) < 2 THEN Trap("InternalInconsistency")
           ELSE
           LET offset == get_u32(Peek(Top.value_stack))
               val == StoredValue(Opcode, Peek(Pop(Top.value_stack, 1)))
               write == write_le(memory, offset_by(memarg, offset), StoreSize(Opcode), val)
           IN  IF ~write.ok THEN Returned("Err", result, "OutOfBounds", write.memory)
               ELSE /\ frames' = [frames EXCEPT ![Len(frames)] =
                                    [Top EXCEPT !.position = memarg.next,
                                                !.value_stack = Pop(@, 2)]]
                    /\ memory' = write.memory
                    /\ UNCHANGED <<runner, invocation, overflow_checks, status, result, error,
                                   code_blocks, runs>>

Store ==
    /\ Running /\ Opcode \in StoreOpcodes
    /\ LET memarg == read_memarg(Code, P1)
       IN  IF ~memarg.ok THEN Trap(ReadError)
           ELSE IF ~memory.present THEN Trap("OutOfMemory")
           ELSE IF Len(Top.value_stack) < 2 THEN Trap("InternalInconsistency")
           ELSE
           LET val == StoredValue(Opcode, Peek(Top.value_stack))
               offset == get_u32(Peek(Pop(Top.value_stack, 1)))
               write == write_le(memory, offset_by(memarg, offset), StoreSize(Opcode), val)
           IN  IF ~write.ok THEN Returned("Err", result, "OutOfBounds", write.memory)
               ELSE /\ frames' = [frames EXCEPT ![Len(frames)] =
                                    [Top EXCEPT !.position = memarg.next,
                                                !.value_stack = Pop(@, 2)]]
                    /\ memory' = write.memory
                    /\ UNCHANGED <<runner, invocation, overflow_checks, status, result, error,
                                   code_blocks, runs>>

\* memory.size: the page count
MemorySize ==
    /\ Running /\ Opcode = "MemorySize"
    /\ LET index == read_uint(Code, P1)
       IN  IF ~index.ok THEN Trap(ReadError)
           ELSE IF ~memory.present THEN Trap("OutOfMemory")
           ELSE Continue([Top EXCEPT !.position = index.next,
                            !.value_stack = Append(@, from_usize(FromNat(memory.pages)))])

(***************************************************************************)
(* The conversions.  i32.wrap_i64 leaves the cell as it is; every other    *)
(* one replaces the top cell in place (value_stack.last_mut()).            *)
(***************************************************************************)
\* what the handler of each opcode makes of the top cell `last`
ConvertedCell(op, last) ==
    CASE op = "I64ExtendI32S" -> from_i64(SignExtend(get_i32(last), 32, 64))
      [] op = "I64ExtendI32U" -> from_u64(get_u32(last))
      [] op = "I32Extend8S" -> from_i32(SignExtend(get_i32(last), 8, 32))
      [] op = "I32Extend16S" -> from_i32(SignExtend(get_i32(last), 16, 32))
      [] op = "I64Extend8S" -> from_i64(SignExtend(get_i64(last), 8, 64))
      [] op = "I64Extend16S" -> from_i64(SignExtend(get_i64(last), 16, 64))
      [] op = "I64Extend32S" -> from_i64(SignExtend(get_i64(last), 32, 64))

Convert(op) ==
    IF Top.value_stack = <<>> THEN Trap("InternalInconsistency")
    ELSE Continue([Top EXCEPT !.position = P1,
                     !.value_stack[Len(Top.value_stack)] = ConvertedCell(op, @)])

I32WrapI64 == Running /\ Opcode = "I32WrapI64" /\ Continue([Top EXCEPT !.position = P1])

I64ExtendI32S == Running /\ Opcode = "I64ExtendI32S" /\ Convert("I64ExtendI32S")

I64ExtendI32U == Running /\ Opcode = "I64ExtendI32U" /\ Convert("I64ExtendI32U")

I32Extend8S == Running /\ Opcode = "I32Extend8S" /\ Convert("I32Extend8S")

I32Extend16S == Running /\ Opcode = "I32Extend16S" /\ Convert("I32Extend16S")

I64Extend8S == Running /\ Opcode = "I64Extend8S" /\ Convert("I64Extend8S")

I64Extend16S == Running /\ Opcode = "I64Extend16S" /\ Convert("I64Extend16S")

I64Extend32S == Running /\ Opcode = "I64Extend32S" /\ Convert("I64Extend32S")

\* a dispatch loop that skips an opcode it has no handler for
Unhandled_Skips ==
    /\ Running /\ Opcode \notin HandledOpcodes
    /\ Continue([Top EXCEPT !.position = P1])

\* the default arm: an opcode `run` has no handler for
Unhandled ==
    /\ Running /\ Opcode \notin HandledOpcodes
    /\ Trap("InvalidBytecode")

(***************************************************************************)
(* The binary operators: each pops b, then a, and pushes one cell, returns *)
(* an error or panics.  What the handler of each opcode makes of (a, b):   *)
(***************************************************************************)
Pushed(v) == [kind |-> "ok", val |-> v, error |-> "None"]

Raised(kind) == [kind |-> "err", val |-> {}, error |-> kind]

Overflowed == [kind |-> "panic", val |-> {}, error |-> "None"]

I32AddValue(a, b) == Pushed(from_u32(wrapping_add(get_u32(a), get_u32(b), 32)))

\* i32.sub with its operands taken in the order they are popped
I32SubValue_Swapped(a, b) == Pushed(from_u32(wrapping_sub(get_u32(b), get_u32(a), 32)))

I32SubValue(a, b) == Pushed(from_u32(wrapping_sub(get_u32(a), get_u32(b), 32)))

I32MulValue(a, b) == Pushed(from_u32(wrapping_mul(get_u32(a), get_u32(b), 32)))

\* i32.div_s without its test of the divisor
I32DivSValue_Unchecked(a, b) ==
    Pushed(from_i32(wrapping_div_s(get_i32(a), get_i32(b), 32)))

I32DivSValue(a, b) ==
    IF get_i32(b) = {} THEN Raised("DivideByZero")
    ELSE Pushed(from_i32(wrapping_div_s(get_i32(a), get_i32(b), 32)))

I32DivUValue(a, b) ==
    IF get_u32(b) = {} THEN Raised("DivideByZero")
    ELSE Pushed(from_u32(wrapping_div_u(get_u32(a), get_u32(b), 32)))

I32RemSValue(a, b) ==
    IF get_i32(b) = {} THEN Raised("DivideByZero")
    ELSE Pushed(from_i32(wrapping_rem_s(get_i32(a), get_i32(b), 32)))

I32RemUValue(a, b) ==
    IF get_u32(b) = {} THEN Raised("DivideByZero")
    ELSE Pushed(from_u32(wrapping_rem_u(get_u32(a), get_u32(b), 32)))

I32ShlValue(a, b) ==
    IF overflow_checks /\ ~ShiftInRange(get_u32(b), 32) THEN Overflowed
    ELSE Pushed(from_u32(ShiftLeft(get_u32(a), ShiftMasked(get_u32(b), 32), 32)))

I32ShrSValue(a, b) ==
    IF overflow_checks /\ ~ShiftInRange(get_i32(b), 32) THEN Overflowed
    ELSE Pushed(from_i32(ShiftRightS(get_i32(a), ShiftMasked(get_i32(b), 32), 32)))

I32ShrUValue(a, b) ==
    IF overflow_checks /\ ~ShiftInRange(get_u32(b), 32) THEN Overflowed
    ELSE Pushed(from_u32(ShiftRightU(get_u32(a), ShiftMasked(get_u32(b), 32), 32)))

I32RotlValue(a, b) == Pushed(from_u32(rotate_left(get_u32(a), get_u32(b), 32)))

I32RotrValue(a, b) == Pushed(from_u32(rotate_right(get_u32(a), get_u32(b), 32)))

\* the count of the 64-bit rotations is `b as u32`
I64RotlValue(a, b) == Pushed(from_u64(rotate_left(get_u64(a), Low(get_u64(b), 32), 64)))

I64RotrValue(a, b) == Pushed(from_u64(rotate_right(get_u64(a), Low(get_u64(b), 32), 64)))

I64AddValue(a, b) == Pushed(from_u64(wrapping_add(get_u64(a), get_u64(b), 64)))

I64SubValue(a, b) == Pushed(from_u64(wrapping_sub(get_u64(a), get_u64(b), 64)))

I64MulValue(a, b) == Pushed(from_u64(wrapping_mul(get_u64(a), get_u64(b), 64)))

I64DivSValue(a, b) ==
    IF get_i64(b) = {} THEN Raised("DivideByZero")
    ELSE Pushed(from_i64(wrapping_div_s(get_i64(a), get_i64(b), 64)))

I64DivUValue(a, b) ==
    IF get_u64(b) = {} THEN Raised("DivideByZero")
    ELSE Pushed(from_u64(wrapping_div_u(get_u64(a), get_u64(b), 64)))

\* i64.rem_s that reports the overflow of MIN % -1 the way i64.div_s would
I64RemSValue_Overflows(a, b) ==
    IF get_i64(b) = {} THEN Raised("DivideByZero")
    ELSE IF get_i64(a) = {63} /\ get_i64(b) = 0 .. 63 THEN Raised("IntegerOverflow")
    ELSE Pushed(from_i64(wrapping_rem_s(get_i64(a), get_i64(b), 64)))

I64RemSValue(a, b) ==
    IF get_i64(b) = {} THEN Raised("DivideByZero")
    ELSE Pushed(from_i64(wrapping_rem_s(get_i64(a), get_i64(b), 64)))

I64RemUValue(a, b) ==
    IF get_u64(b) = {} THEN Raised("DivideByZero")
    ELSE Pushed(from_u64(wrapping_rem_u(get_u64(a), get_u64(b), 64)))

I64ShlValue(a, b) ==
    IF overflow_checks /\ ~ShiftInRange(get_u64(b), 64) THEN Overflowed
    ELSE Pushed(from_u64(ShiftLeft(get_u64(a), ShiftMasked(get_u64(b), 64), 64)))

I64ShrSValue(a, b) ==
    IF overflow_checks /\ ~ShiftInRange(get_i64(b), 64) THEN Overflowed
    ELSE Pushed(from_i64(ShiftRightS(get_i64(a), ShiftMasked(get_i64(b), 64), 64)))

I64ShrUValue(a, b) ==
    IF overflow_checks /\ ~ShiftInRange(get_u64(b), 64) THEN Overflowed
    ELSE Pushed(from_u64(ShiftRightU(get_u64(a), ShiftMasked(get_u64(b), 64), 64)))

BinaryValue(op, a, b) ==
    CASE op = "I32Add" -> I32AddValue(a, b)
      [] op = "I32Sub" -> I32SubValue(a, b)
      [] op = "I32Mul" -> I32MulValue(a, b)
      [] op = "I32DivS" -> I32DivSValue(a, b)
      [] op = "I32DivU" -> I32DivUValue(a, b)
      [] op = "I32RemS" -> I32RemSValue(a, b)
      [] op = "I32RemU" -> I32RemUValue(a, b)
      [] op = "I32Shl" -> I32ShlValue(a, b)
      [] op = "I32ShrS" -> I32ShrSValue(a, b)
      [] op = "I32ShrU" -> I32ShrUValue(a, b)
      [] op = "I64Add" -> I64AddValue(a, b)
      [] op = "I64Sub" -> I64SubValue(a, b)
      [] op = "I64Mul" -> I64MulValue(a, b)
      [] op = "I64DivS" -> I64DivSValue(a, b)
      [] op = "I64DivU" -> I64DivUValue(a, b)
      [] op = "I64RemS" -> I64RemSValue(a, b)
      [] op = "I64RemU" -> I64RemUValue(a, b)
      [] op = "I64Shl" -> I64ShlValue(a, b)
      [] op = "I64ShrS" -> I64ShrSValue(a, b)
      [] op = "I64ShrU" -> I64ShrUValue(a, b)
      [] op = "I32Rotl" -> I32RotlValue(a, b)
      [] op = "I32Rotr" -> I32RotrValue(a, b)
      [] op = "I64Rotl" -> I64RotlValue(a, b)
      [] op = "I64Rotr" -> I64RotrValue(a, b)

BinaryOpcodes ==
    { "I32Add", "I32Sub", "I32Mul", "I32DivS", "I32DivU", "I32RemS", "I32RemU",
      "I32Shl", "I32ShrS", "I32ShrU",
      "I64Add", "I64Sub", "I64Mul", "I64DivS", "I64DivU", "I64RemS", "I64RemU",
      "I64Shl", "I64ShrS", "I64ShrU", "I32Rotl", "I32Rotr", "I64Rotl", "I64Rotr" }

\* the shape shared by the handlers of the binary operators
Binary(op) ==
    LET stack == Top.value_stack
        n == Len(stack)
    IN  IF n < 2 THEN Trap("InternalInconsistency")
        ELSE \E v \in {BinaryValue(op, stack[n - 1], stack[n])} :
                 CASE v.kind = "ok" ->
                         Continue([Top EXCEPT !.position = P1,
                                     !.value_stack = Append(Pop(stack, 2), v.val)])
                   [] v.kind = "err" -> Trap(v.error)
                   [] OTHER -> Panic

I32Add == Running /\ Opcode = "I32Add" /\ Binary("I32Add")

I32Sub == Running /\ Opcode = "I32Sub" /\ Binary("I32Sub")

I32Mul == Running /\ Opcode = "I32Mul" /\ Binary("I32Mul")

I32DivS == Running /\ Opcode = "I32DivS" /\ Binary("I32DivS")

I32DivU == Running /\ Opcode = "I32DivU" /\ Binary("I32DivU")

I32RemS == Running /\ Opcode = "I32RemS" /\ Binary("I32RemS")

I32RemU == Running /\ Opcode = "I32RemU" /\ Binary("I32RemU")

I32Shl == Running /\ Opcode = "I32Shl" /\ Binary("I32Shl")

I32ShrS == Running /\ Opcode = "I32ShrS" /\ Binary("I32ShrS")

I32ShrU == Running /\ Opcode = "I32ShrU" /\ Binary("I32ShrU")

I64Add == Running /\ Opcode = "I64Add" /\ Binary("I64Add")

I64Sub == Running /\ Opcode = "I64Sub" /\ Binary("I64Sub")

I64Mul == Running /\ Opcode = "I64Mul" /\ Binary("I64Mul")

I64DivS == Running /\ Opcode = "I64DivS" /\ Binary("I64DivS")

I64DivU == Running /\ Opcode = "I64DivU" /\ Binary("I64DivU")

I64RemS == Running /\ Opcode = "I64RemS" /\ Binary("I64RemS")

I64RemU == Running /\ Opcode = "I64RemU" /\ Binary("I64RemU")

I64Shl == Running /\ Opcode = "I64Shl" /\ Binary("I64Shl")

I64ShrS == Running /\ Opcode = "I64ShrS" /\ Binary("I64ShrS")

I64ShrU == Running /\ Opcode = "I64ShrU" /\ Binary("I64ShrU")

I32Rotl == Running /\ Opcode = "I32Rotl" /\ Binary("I32Rotl")

I32Rotr == Running /\ Opcode = "I32Rotr" /\ Binary("I32Rotr")

I64Rotl == Running /\ Opcode = "I64Rotl" /\ Binary("I64Rotl")

I64Rotr == Running /\ Opcode = "I64Rotr" /\ Binary("I64Rotr")

(***************************************************************************)
(* The embedder calls `run` again, with the same module and the code block *)
(* of the function, once the invocation before has returned (tests::add).  *)
(***************************************************************************)
MaxRuns == 3

\* the invocations of the sessions explored
Session ==
    { [func |-> BinaryFunc(106), args |-> <<I32(1234), I32(5678)>>],
      [func |-> BinaryFunc(110), args |-> <<I32(7), I32(0)>>],
      [func |-> SequenceFunc(1),
       args |-> <<ValI32(Word32(0, 8)), ValI32(Pattern32), ValI32(Word32(0, 65533))>>],
      [func |-> SequenceFunc(2),
       args |-> <<ValI32(Word32(0, 8)), ValI32(Pattern32), ValI32(Word32(0, 8))>>],
      [func |-> SequenceFunc(3),
       args |-> <<ValI32(Word32(0, 65532)), ValI32(Pattern32), ValI32(Word32(0, 65533))>>],
      [func |-> 9, args |-> <<I32(3), I32(0)>>],
      [func |-> LoadFunc(40, 0), args |-> <<ValI32(Word32(0, 0))>>],
      [func |-> StoreFunc(54, 0), args |-> <<ValI32(Word32(0, 65534)), ValI32(Pattern32)>>] }

\* an embedder whose code block is not reset
Invoke_Resumes ==
    /\ status \in {"Ok", "Err"}
    /\ Len(runs) < MaxRuns
    /\ invocation \in Session
    /\ \E next \in Session :
          /\ invocation' = next
          /\ frames' = << [Activation(next.func, next.args \o Defaults(next.func))
                             EXCEPT !.position = code_blocks[next.func + 1]] >>
          /\ runs' = Append(runs, Started(next, memory))
    /\ status' = "running"
    /\ result' = ValEmpty
    /\ error' = "None"
    /\ UNCHANGED <<runner, overflow_checks, memory, code_blocks>>

Invoke ==
    /\ status \in {"Ok", "Err"}
    /\ Len(runs) < MaxRuns
    /\ invocation \in Session
    /\ \E next \in Session :
          /\ invocation' = next
          /\ frames' = << [Activation(next.func, next.args \o Defaults(next.func))
                             EXCEPT !.position = reset(code_blocks[next.func + 1])] >>
          /\ runs' = Append(runs, Started(next, memory))
    /\ status' = "running"
    /\ result' = ValEmpty
    /\ error' = "None"
    /\ UNCHANGED <<runner, overflow_checks, memory, code_blocks>>

Next ==
    \/ Nop
    \/ Block
    \/ Loop
    \/ If
    \/ Else
    \/ End
    \/ Br
    \/ BrIf
    \/ BrTable
    \/ Return
    \/ Call
    \/ Drop
    \/ Select
    \/ LocalGet
    \/ LocalSet
    \/ LocalTee
    \/ I32Const
    \/ I64Const
    \/ I32Eqz
    \/ I64Eqz
    \/ Compare
    \/ Load
    \/ Store
    \/ MemorySize
    \/ I32Add
    \/ I32Sub
    \/ I32Mul
    \/ I32DivS
    \/ I32DivU
    \/ I32RemS
    \/ I32RemU
    \/ I32Shl
    \/ I32ShrS
    \/ I32ShrU
    \/ I64Add
    \/ I64Sub
    \/ I64Mul
    \/ I64DivS
    \/ I64DivU
    \/ I64RemS
    \/ I64RemU
    \/ I64Shl
    \/ I64ShrS
    \/ I64ShrU
    \/ I32Rotl
    \/ I32Rotr
    \/ I64Rotl
    \/ I64Rotr
    \/ I32WrapI64
    \/ I64ExtendI32S
    \/ I64ExtendI32U
    \/ I32Extend8S
    \/ I32Extend16S
    \/ I64Extend8S
    \/ I64Extend16S
    \/ I64Extend32S
    \/ Unhandled
    \/ Invoke

Spec == Init /\ [][Next]_vars

(***************************************************************************)
(* The runner: `main` of src/src/main.rs instantiates a blob with its own   *)
(* linker and invokes one function of the module                            *)
(***************************************************************************)
MaxImports == 2

ModNames == {"env", "wasi_snapshot_preview1"}

ImportNames ==
    {"fd_write", "syscall0", "syscall1", "syscall2", "syscall3", "syscall4", "syscall5",
     "print"}

TypeRefs == {0, 1}

\* the entries of an import section: functions, and memories
Imports ==
    [kind : {"func", "memory"}, mod_name : ModNames, name : ImportNames,
     type_ref : TypeRefs]

Blobs == UNION { [1 .. n -> Imports] : n \in 0 .. MaxImports }

Linked(callable) == [ok |-> TRUE, callable |-> callable, error |-> "None"]

LinkFailed(kind) == [ok |-> FALSE, callable |-> "None", error |-> kind]

\* a linker that resolves fd_write for the WASI module name only
linker_ByModule(mod_name, name, type_ref) ==
    CASE name = "fd_write" /\ mod_name = "wasi_snapshot_preview1" -> Linked("wasm_fd_write")
      [] name \in {"syscall0", "syscall1", "syscall2", "syscall3", "syscall4"} ->
            Linked("syscall")
      [] OTHER -> LinkFailed("DynamicLinkError")

\* the closure `main` hands to WasmLoader::instantiate
linker(mod_name, name, type_ref) ==
    CASE name = "fd_write" -> Linked("wasm_fd_write")
      [] name = "syscall0" -> Linked("syscall")
      [] name = "syscall1" -> Linked("syscall")
      [] name = "syscall2" -> Linked("syscall")
      [] name = "syscall3" -> Linked("syscall")
      [] name = "syscall4" -> Linked("syscall")
      [] OTHER -> LinkFailed("DynamicLinkError")

IsFunc(import) == import.kind = "func"

\* WasmLoader::instantiate on the import section of a blob that is well formed
\* otherwise: the linker is called for every function import, in section order;
\* the callables it returns are installed, the first error it returns ends the
\* instantiation
instantiate(imports) ==
    LET funcs == SelectSeq(imports, IsFunc)
        links == [k \in DOMAIN funcs |->
                    linker(funcs[k].mod_name, funcs[k].name, funcs[k].type_ref)]
        failed == { k \in DOMAIN links : ~links[k].ok }
    IN  IF failed = {}
        THEN [ok |-> TRUE, callables |-> [k \in DOMAIN links |-> links[k].callable],
              error |-> "None"]
        ELSE [ok |-> FALSE, callables |-> <<>>,
              error |-> links[CHOOSE k \in failed : \A j \in failed : k <= j].error]

RunnerInit ==
    /\ runner \in [imports : Blobs, option_d : BOOLEAN, phase : {"main"},
                    callables : {<<>>}, error : {"None"}]
    /\ invocation = [func |-> 0, args |-> <<>>]
    /\ overflow_checks = FALSE
    /\ frames = <<>>
    /\ status = "Ok"
    /\ result = ValEmpty
    /\ error = "None"
    /\ memory = NoMemory
    /\ code_blocks = <<>>
    /\ runs = <<>>

\* `main` with a readable WASMFILE: the `unwrap` of a failed instantiation panics;
\* otherwise -d prints the statistics of the module and, without it, the function
\* named on the command line is looked up and invoked
main ==
    /\ runner.phase = "main"
    /\ LET module == instantiate(runner.imports)
       IN  runner' =
            IF ~module.ok
            THEN [runner EXCEPT !.phase = "panic", !.error = module.error]
            ELSE [runner EXCEPT !.callables = module.callables,
                                !.phase = IF runner.option_d THEN "print_stat"
                                          ELSE "invoke"]
    /\ UNCHANGED <<invocation, overflow_checks, frames, status, result, error,
                   memory, code_blocks, runs>>

RunnerNext == main

RunnerSpec == RunnerInit /\ [][RunnerNext]_vars

(***************************************************************************)
(* Properties                                                              *)
(***************************************************************************)
\* the activation the step leaves on top, when the step keeps the activation count
TopAfter == frames'[Len(frames')]

Completes == status' = "running" /\ Len(frames') = Len(frames)

(* C1 *)
\* the immediate of the br / br_if at the current position
Depth == read_uint(Code, P1).val

\* the block a branch of the given depth targets: the entry at that depth from
\* the top of the block stack
TargetBlock(fr, depth) ==
    block_info(BlockInfos[fr.func + 1], fr.block_stack[Len(fr.block_stack) - depth])

ResultCells(block) == IF block.block_type = "Empty" THEN 0 ELSE 1

BrExecutes ==
    /\ Running /\ Opcode = "Br"
    /\ Depth + 1 <= Len(Top.block_stack)

BranchEffect(before, after, depth) ==
    LET block == TargetBlock(before, depth)
    IN  /\ after.block_stack = Pop(before.block_stack, depth + 1)
        /\ Len(after.value_stack) = block.stack_level + ResultCells(block)
        /\ ResultCells(block) = 1 => Peek(after.value_stack) = Peek(before.value_stack)
        /\ after.position = IF block.inst_type = "Loop" THEN block.position
                            ELSE block.end_position

\* C1: every `br depth` executed with at least depth+1 entries on the block stack
\* drops exactly depth+1 of them, leaves the operand stack at the target's entry
\* depth plus its result cell (the cell that was on top), and continues at the
\* target's preferred position: the loop's header, or the end of a block or an if.
\* The branch completes whenever the result cell it has to retain is there.
ThmC1_BrEffect ==
    [][BrExecutes =>
        /\ (ResultCells(TargetBlock(Top, Depth)) <= Len(Top.value_stack)) => Completes
        /\ Completes => BranchEffect(Top, TopAfter, Depth)]_vars

\* after `br 2` of body 14: the outermost block (i32) is left with its result 4
\* above the cell pushed before it
WitC1_BrDone ==
    /\ status = "running" /\ frames # <<>>
    /\ invocation.func = 14
    /\ Top.position = 21 /\ Top.block_stack = <<>>
    /\ Len(Top.value_stack) = 2
    /\ get_i32(Top.value_stack[1]) = FromNat(1)
    /\ get_i32(Top.value_stack[2]) = FromNat(4)

TableEntry(code, position, k) ==
    read_uint(code, SkipUints(code, read_uint(code, position).next, k)).val

\* the label the WebAssembly br_table selects for an index cell
SelectedLabel(code, position, cell) ==
    LET n_vec == read_uint(code, position).val
        i == get_i32(cell)
    IN  IF IsNegative(i, 32) \/ ToNat(i) >= n_vec THEN TableEntry(code, position, n_vec)
        ELSE TableEntry(code, position, ToNat(i))

\* C3: br_table pops the index i and then does what `br labels[i]` does when
\* i < len, and what `br default` does otherwise
CexC3_BrTableSelects ==
    [][(Running /\ Opcode = "BrTable" /\ Top.value_stack # <<>>) =>
        LET popped == [Top EXCEPT !.value_stack = Pop(@, 1)]
            label == SelectedLabel(Code, P1, Peek(Top.value_stack))
        IN  (/\ label + 1 <= Len(popped.block_stack)
             /\ ResultCells(TargetBlock(popped, label)) <= Len(popped.value_stack))
                => (Completes /\ BranchEffect(popped, TopAfter, label))]_vars

(* C4 *)
\* a br, or a taken br_if, whose depth equals the number of entries on the block
\* stack: its target is the function body
BranchesToBody ==
    /\ Running /\ Len(frames) = 1
    /\ \/ Opcode = "Br" /\ Depth = Len(Top.block_stack) /\ Top.value_stack # <<>>
       \/ /\ Opcode = "BrIf" /\ Depth = Len(Top.block_stack)
          /\ Len(Top.value_stack) >= 2 /\ get_bool(Peek(Top.value_stack))

\* C4: a branch that unwinds to the outermost level ends the activation normally
\* with the top operand cell as its result, also when its target is the function
\* body itself, and never with InternalInconsistency
CexC4_BranchToBodyReturns ==
    [][BranchesToBody => (status' \in {"running", "Ok"} /\ error' # "InternalInconsistency")]_vars

(* C5 *)
\* the function a `call` at the current position names
Callee == Functions[read_uint(Code, P1).val + 1]

\* the cell a caller receives for a result taken from the callee's top cell
ResultCell(type, cell) ==
    IF type = "I32" THEN SignExtend(Low(cell, 32), 32, 64) ELSE cell

CallStarts == Running /\ Opcode = "Call" /\ Len(frames') = Len(frames) + 1

CalleeReturns ==
    status = "running" /\ status' = "running" /\ Len(frames') = Len(frames) - 1

CalleeSteps ==
    status = "running" /\ status' = "running" /\ Len(frames') = Len(frames)

\* C5: a call of a defined function that returns normally leaves the caller's
\* operand stack at its depth before the call, minus the parameters, plus the
\* results. The call takes the parameter cells off the caller and leaves the
\* cells below; no step of the callee touches the caller; the return appends the
\* callee's result, if it declares one, and changes nothing else of the caller.
ThmC5_CallEffect ==
    [][/\ CallStarts =>
            /\ Len(Callee.param_types) <= Len(Top.value_stack)
            /\ frames'[Len(frames)].value_stack
                    = SubSeq(Top.value_stack, 1,
                             Len(Top.value_stack) - Len(Callee.param_types))
            /\ frames'[Len(frames)].block_stack = Top.block_stack
            /\ frames'[Len(frames)].locals = Top.locals
       /\ CalleeSteps =>
            SubSeq(frames', 1, Len(frames) - 1) = SubSeq(frames, 1, Len(frames) - 1)
       /\ CalleeReturns =>
            LET caller == frames[Len(frames) - 1]
                results == Functions[Top.func + 1].result_types
            IN  /\ SubSeq(frames', 1, Len(frames) - 2)
                        = SubSeq(frames, 1, Len(frames) - 2)
                /\ TopAfter = [caller EXCEPT !.value_stack =
                        IF results = <<>> THEN @
                        ELSE Append(@, ResultCell(results[1], Peek(Top.value_stack)))]
      ]_vars

\* body 3 invoked with (3, 3), back from its call of `add`: the constant 100
\* pushed before the call, and the sum 6 in place of the two parameters
WitC5_Returned ==
    /\ status = "running" /\ Len(frames) = 1
    /\ invocation = [func |-> 3, args |-> <<I32(3), I32(3)>>]
    /\ Top.position = 9
    /\ Len(Top.value_stack) = 2
    /\ get_i32(Top.value_stack[1]) = FromNat(100)
    /\ get_i32(Top.value_stack[2]) = FromNat(6)

(* C6 *)
CallsImport ==
    /\ Running /\ Opcode = "Call"
    /\ read_uint(Code, P1).ok
    /\ read_uint(Code, P1).val < Len(Functions)
    /\ Callee.imported
    /\ Len(Callee.param_types) <= Len(Top.value_stack)

\* C6: a call of an imported function takes its parameters off the operand
\* stack, invokes the host callable and pushes the Value it returns, or ends the
\* invocation with the RuntimeError the host callable returns
CexC6_ImportCallReturns ==
    [][CallsImport =>
        \/ /\ Completes
           /\ Len(TopAfter.value_stack)
                = Len(Top.value_stack) - Len(Callee.param_types) + Len(Callee.result_types)
        \/ status' = "Err"]_vars

(* C7 *)
Width(op) == IF op \in {"I32Add", "I32Sub", "I32Mul", "I32DivS", "I32DivU", "I32RemS",
                        "I32RemU", "I32Shl", "I32ShrS", "I32ShrU", "I32Rotl", "I32Rotr"}
               THEN 32 ELSE 64

\* the operands of the binary operator at the current position, at its width:
\* Lhs is the cell below the top, Rhs the top cell
Lhs == Low(Top.value_stack[Len(Top.value_stack) - 1], Width(Opcode))

Rhs == Low(Peek(Top.value_stack), Width(Opcode))

Applies(ops) == Running /\ Opcode \in ops /\ Len(Top.value_stack) >= 2

Divisions ==
    {"I32DivS", "I32DivU", "I32RemS", "I32RemU", "I64DivS", "I64DivU", "I64RemS", "I64RemU"}

\* C7: each of the eight division and remainder operators, applied to a divisor
\* that is zero, ends the invocation with DivideByZero: no result is pushed and
\* no activation is left
ThmC7_DivideByZero ==
    [][(Applies(Divisions) /\ Rhs = {}) =>
        (status' = "Err" /\ error' = "DivideByZero" /\ frames' = <<>>
            /\ result' = result)]_vars

\* i32.div_s applied to (7, 0) has ended with DivideByZero
WitC7_DivSByZero ==
    /\ invocation = [func |-> BinaryFunc(109), args |-> <<I32(7), I32(0)>>]
    /\ status = "Err" /\ error = "DivideByZero"

(* C8 *)
\* C8: div_s of the most negative integer by -1 ends the invocation with
\* IntegerOverflow, at both widths
CexC8_DivSOverflow ==
    [][(/\ Applies({"I32DivS", "I64DivS"})
        /\ Lhs = {Width(Opcode) - 1}
        /\ Rhs = 0 .. (Width(Opcode) - 1)) =>
        (status' = "Err" /\ error' = "IntegerOverflow")]_vars

(* C9 *)
Shifts == {"I32Shl", "I32ShrS", "I32ShrU", "I64Shl", "I64ShrS", "I64ShrU"}

\* the count a WebAssembly shift uses: the low 5 (i32) or 6 (i64) bits of Rhs
Count == ToNat(Low(Rhs, IF Width(Opcode) = 32 THEN 5 ELSE 6))

Shifted ==
    LET w == Width(Opcode)
        left == { i \in 0 .. (w - 1) : (i - Count) \in Lhs }
        right == { i \in 0 .. (w - 1) : (i + Count) \in Lhs }
        sign == IF (w - 1) \in Lhs THEN (w - Count) .. (w - 1) ELSE {}
    IN  CASE Opcode \in {"I32Shl", "I64Shl"} -> left
          [] Opcode \in {"I32ShrU", "I64ShrU"} -> right
          [] OTHER -> right \cup sign

\* C9: every shift takes its count from the low 5 (i32) or 6 (i64) bits of its
\* right operand, shr_s filling with the sign bit, and pushes the result: no
\* shift, whatever its count, ends the invocation or aborts it
CexC9_ShiftByLowBits ==
    [][Applies(Shifts) =>
        (Completes /\ Low(Peek(TopAfter.value_stack), Width(Opcode)) = Shifted)]_vars

(* C10 *)
\* the k-th byte of a pattern, as a number
Limb(x, k) == ToNat({ i - 8 * k : i \in x \cap ((8 * k) .. (8 * k + 7)) })

Limbs(x, w) == [k \in 0 .. ((w \div 8) - 1) |-> Limb(x, k)]

\* long addition of two numbers given by their bytes: the carry into byte k
RECURSIVE AddCarry(_, _, _)
AddCarry(a, b, k) ==
    IF k = 0 THEN 0 ELSE (a[k - 1] + b[k - 1] + AddCarry(a, b, k - 1)) \div 256

SumLimbs(a, b) == [k \in DOMAIN a |-> (a[k] + b[k] + AddCarry(a, b, k)) % 256]

\* long multiplication: the sum of the byte products of column k
RECURSIVE Column(_, _, _, _)
Column(a, b, k, i) ==
    IF i > k THEN 0 ELSE a[i] * b[k - i] + Column(a, b, k, i + 1)

RECURSIVE MulCarry(_, _, _)
MulCarry(a, b, k) ==
    IF k = 0 THEN 0 ELSE (Column(a, b, k - 1, 0) + MulCarry(a, b, k - 1)) \div 256

ProductLimbs(a, b) ==
    [k \in DOMAIN a |-> (Column(a, b, k, 0) + MulCarry(a, b, k)) % 256]

\* r is the sum / difference / product of a and b modulo 2^w
IsSum(r, a, b, w) == Limbs(r, w) = SumLimbs(Limbs(a, w), Limbs(b, w))

IsDifference(r, a, b, w) == IsSum(a, r, b, w)

IsProduct(r, a, b, w) == Limbs(r, w) = ProductLimbs(Limbs(a, w), Limbs(b, w))

Returns(op, a, b, r) ==
    (invocation = [func |-> BinaryFunc(op), args |-> <<ValI32(a), ValI32(b)>>]
        /\ status = "Ok") => result = ValI32(r)

\* the values of tests `add` and `sub`
Examples ==
    /\ Returns(106, FromInt(1234, 32), FromInt(5678, 32), FromInt(6912, 32))
    /\ Returns(106, Word32(57005, 48879), Word32(21845, 21845), Word32(13315, 5188))
    /\ Returns(107, FromInt(1234, 32), FromInt(5678, 32), FromInt(-4444, 32))
    /\ Returns(107, Word32(21845, 21845), Word32(57005, 48879), Word32(30375, 38502))

\* C10: add, sub and mul, at both widths, push the sum, the difference and the
\* product of their operands modulo 2^32 or 2^64 in place of the operands and
\* never end the invocation; an invocation of a body that applies add or sub to
\* the values of tests `add` and `sub` returns the values those tests expect
ThmC10_WrappingArithmetic ==
    [][/\ Applies({"I32Add", "I32Sub", "I32Mul", "I64Add", "I64Sub", "I64Mul"}) =>
            /\ Completes
            /\ Len(TopAfter.value_stack) = Len(Top.value_stack) - 1
            /\ LET r == Low(Peek(TopAfter.value_stack), Width(Opcode))
               IN  CASE Opcode \in {"I32Add", "I64Add"} -> IsSum(r, Lhs, Rhs, Width(Opcode))
                     [] Opcode \in {"I32Sub", "I64Sub"} ->
                            IsDifference(r, Lhs, Rhs, Width(Opcode))
                     [] OTHER -> IsProduct(r, Lhs, Rhs, Width(Opcode))
       /\ Examples'
      ]_vars

\* i32.add applied to (0xDEADBEEF, 0x55555555) has returned 0x34031444
WitC10_AddWrapped ==
    /\ invocation = [func |-> BinaryFunc(106),
                     args |-> <<ValI32(Word32(57005, 48879)), ValI32(Word32(21845, 21845))>>]
    /\ status = "Ok"
    /\ result = ValI32(Word32(13315, 5188))

(* C11 *)
\* the bytes an access of the opcode covers, by its name
AccessBytes(op) ==
    CASE op \in {"I32Load8S", "I32Load8U", "I64Load8S", "I64Load8U", "I32Store8",
                 "I64Store8"} -> 1
      [] op \in {"I32Load16S", "I32Load16U", "I64Load16S", "I64Load16U", "I32Store16",
                 "I64Store16"} -> 2
      [] op \in {"I32Load", "I64Load32S", "I64Load32U", "I32Store", "I64Store32"} -> 4
      [] OTHER -> 8

\* the base address of the access at the current position: the top cell of a
\* load, the cell below the top of a store
BaseCell ==
    IF Opcode \in LoadOpcodes THEN Peek(Top.value_stack)
    ELSE Top.value_stack[Len(Top.value_stack) - 1]

\* the handler at the current position is a load or a store that gets as far as
\* its memory access
Accesses ==
    /\ Running /\ memory.present
    /\ \/ Opcode \in LoadOpcodes /\ Len(Top.value_stack) >= 1
       \/ Opcode \in StoreOpcodes /\ Len(Top.value_stack) >= 2

\* base + offset + size exceeds the byte length of the memory, the base taken as
\* its two 16-bit halves
BeyondMemory ==
    LET hi == ToNat({ i - 16 : i \in BaseCell \cap (16 .. 31) })
        lo == ToNat(BaseCell \cap (0 .. 15))
    IN  \/ hi > memory.pages
        \/ hi * 65536 + lo + read_memarg(Code, P1).offset + AccessBytes(Opcode)
                > memory.pages * 65536

\* scenario S5: an i32 store at address 65534 of a memory of one page
StoresAt65534 ==
    /\ invocation.func = StoreFunc(54, 0)
    /\ invocation.args[1] = ValI32(Word32(0, 65534))
    /\ memory.pages = 1

\* C11: a load or a store whose effective address (the 32-bit base plus the
\* memarg offset, not wrapped at 2^32) plus its size exceeds the byte length of
\* the memory ends the invocation with OutOfBounds and changes no byte of the
\* memory; so does the i32 store at 65534 of a memory of one page
ThmC11_OutOfBounds ==
    [][/\ (Accesses /\ BeyondMemory) =>
            (status' = "Err" /\ error' = "OutOfBounds" /\ memory' = memory)
       /\ (StoresAt65534 /\ Running /\ Opcode = "I32Store") =>
            (status' = "Err" /\ error' = "OutOfBounds" /\ memory' = memory)
      ]_vars

\* the i32 store at 65534 has ended with OutOfBounds and the data of the memory
\* is as it was
WitC11_StoreAt65534 ==
    /\ StoresAt65534
    /\ status = "Err" /\ error = "OutOfBounds"
    /\ memory = DataMemory

Finished(i) == runs[i].status \in {"Ok", "Err"}

SameOutcome(i, j) ==
    /\ runs[i].status = runs[j].status
    /\ runs[i].result = runs[j].result
    /\ runs[i].error = runs[j].error
    /\ runs[i].after = runs[j].after

\* C13: two invocations of the same function with the same arguments on the
\* same memory contents return the same result and leave the same memory,
\* whatever was invoked before each of them
ThmC13_Deterministic ==
    \A i, j \in DOMAIN runs :
        (/\ Finished(i) /\ Finished(j)
         /\ runs[i].invocation = runs[j].invocation
         /\ runs[i].before = runs[j].before) => SameOutcome(i, j)

\* a body that stores and loads has returned twice on the memory that an
\* invocation before them, which ended with an error, had written to
WitC13_SameTwice ==
    /\ Len(runs) = 3
    /\ runs[1].status = "Err" /\ runs[1].after # runs[1].before
    /\ runs[1].invocation # runs[2].invocation
    /\ runs[2].invocation = runs[3].invocation
    /\ runs[2].before = runs[3].before
    /\ runs[2].status = "Ok" /\ runs[3].status = "Ok"
    /\ runs[3].result = ValI32(Pattern32)

(* C15 *)
\* the cell of a local whose initial value is v: the value in the low bits of
\* its type, sign-extended for an i32
InitialCell(v) ==
    IF v.type = "I32" /\ 31 \in v.val THEN v.val \cup (32 .. 63) ELSE v.val

\* the activation is at the first byte of the body of invocation inv, its stacks
\* are empty and its locals are the arguments followed by zeros
IsFresh(fr, inv) ==
    /\ fr.func = inv.func
    /\ fr.position = 0
    /\ fr.value_stack = <<>>
    /\ fr.block_stack = <<>>
    /\ Len(fr.locals) = Len(inv.args) + Len(Functions[inv.func + 1].local_types)
    /\ \A k \in DOMAIN fr.locals :
          fr.locals[k] = IF k <= Len(inv.args) THEN InitialCell(inv.args[k]) ELSE {}

\* run j was started right after an invocation that ended with an error
AfterTrap(j) == j > 1 /\ runs[j - 1].status = "Err"

\* C15: the invocation that follows one that has ended with an error, of any
\* kind and raised at any call depth, starts as a fresh activation on the memory
\* the error left, and ends as an invocation of the same function with the same
\* arguments on equal memory does that did not follow an error
ThmC15_FreshAfterTrap ==
    [][/\ (status = "Err" /\ status' = "running") =>
            /\ Len(frames') = 1
            /\ IsFresh(frames'[1], invocation')
            /\ memory' = memory
       /\ \A i, j \in DOMAIN runs' :
            (/\ AfterTrap(j)' /\ ~AfterTrap(i)'
             /\ Finished(i)' /\ Finished(j)'
             /\ runs'[i].invocation = runs'[j].invocation
             /\ runs'[i].before = runs'[j].before) => SameOutcome(i, j)'
      ]_vars

\* a load has returned the same value before and after an invocation that ended
\* with an error raised in a called function
WitC15_LoadAfterTrap ==
    /\ Len(runs) = 3
    /\ runs[1].invocation = runs[3].invocation
    /\ runs[1].invocation.func = LoadFunc(40, 0)
    /\ runs[1].before = DataMemory /\ runs[3].before = DataMemory
    /\ runs[2].invocation.func = 9 /\ runs[2].status = "Err"
    /\ runs[1].status = "Ok" /\ runs[3].status = "Ok"
    /\ runs[3].result = ValI32(Word32(383, 65408))

(* C14 *)
\* the four bytes of a memory from address a on are those of word w
WordAt(mem, a, w) ==
    \A k \in 0 .. 3 :
        ReadByte(mem, a + k) = ToNat({ i - 8 * k : i \in w \cap ((8 * k) .. (8 * k + 7)) })

HoldsWord(a, w) == WordAt(memory, a, w)

\* a body that stores its second argument at its first and then divides by
\* zero, stores or loads out of bounds, in itself or in the body it calls
StoresThenFails ==
    /\ invocation.func \in { SequenceFunc(k) : k \in 0 .. 3 }
    /\ memory.present
    /\ status = "Err"

\* C14: an instruction that ends the invocation with an error (a division by
\* zero, a load or a store out of bounds, ...) changes no byte of the memory,
\* and the memory the embedder finds is the one the stores completed before it
\* have written: the word a body has stored before it fails is in the memory
ThmC14_NoRollback ==
    [][/\ (status = "running" /\ status' = "Err") =>
            (memory' = memory /\ runs'[Len(runs')].after = memory)
       /\ StoresThenFails' =>
            WordAt(memory', ToNat(invocation'.args[1].val), invocation'.args[2].val)
      ]_vars

\* a store at 65533 has ended with OutOfBounds after the store at 65532 before
\* it: the word stored at 65532 is in the memory, which is not the one the
\* invocation started on
WitC14_StoreThenTrap ==
    /\ invocation.func = SequenceFunc(1)
    /\ invocation.args[1] = ValI32(Word32(0, 65532))
    /\ invocation.args[3] = ValI32(Word32(0, 65533))
    /\ status = "Err" /\ error = "OutOfBounds"
    /\ HoldsWord(65532, Pattern32)
    /\ memory # runs[Len(runs)].before

(* C16 *)
\* the handler at the current position ends the activation: `return`, or the
\* `end` of the body
Terminates ==
    /\ Running
    /\ Opcode = "Return" \/ (Opcode = "End" /\ Top.block_stack = <<>>)

\* the declared results of the function of the activation on top
Results == Functions[Top.func + 1].result_types

\* the top cell read as a value of the declared type
Retagged ==
    IF Results[1] = "I32" THEN [type |-> "I32", val |-> Peek(Top.value_stack) \cap (0 .. 31)]
    ELSE [type |-> "I64", val |-> Peek(Top.value_stack) \cap (0 .. 63)]

\* the value is handed to whoever started the activation: the embedder, or the
\* calling activation, which goes on with it
Yields(value) ==
    IF Len(frames) = 1 THEN status' = "Ok" /\ result' = value
    ELSE /\ status' = "running"
         /\ Len(frames') = Len(frames) - 1
         /\ value.type # "Empty" =>
                Low(Peek(TopAfter.value_stack), IF value.type = "I32" THEN 32 ELSE 64)
                    = value.val

\* C16: an activation that ends by `return` or by the final `end` with as many
\* cells as its function declares results yields its top cell re-tagged as the
\* declared type (the low 32 bits for I32, all 64 for I64), or Empty when no
\* result is declared; one that ends with fewer or more cells fails with
\* InternalInconsistency
CexC16_ResultProtocol ==
    [][Terminates =>
         IF Len(Top.value_stack) = Len(Results)
         THEN Yields(IF Results = <<>> THEN ValEmpty ELSE Retagged)
         ELSE status' = "Err" /\ error' = "InternalInconsistency"
      ]_vars

(* C17 *)
\* the body `i32.const 5; global.set 0; global.get 0; end` has returned
SetThenGetEnded == invocation.func = UnimplementedFunc(0) /\ status # "running"

\* C17: global.set pops one cell and global.get pushes one, neither ends the
\* invocation, and a body that sets global 0 to 5 and gets it returns 5
CexC17_GlobalAccess ==
    [][/\ (Running /\ Opcode = "GlobalSet" /\ Top.value_stack # <<>>) =>
            (Completes /\ Len(TopAfter.value_stack) = Len(Top.value_stack) - 1)
       /\ (Running /\ Opcode = "GlobalGet") =>
            (Completes /\ Len(TopAfter.value_stack) = Len(Top.value_stack) + 1)
       /\ SetThenGetEnded' => (status' = "Ok" /\ result' = I32(5))
      ]_vars

(* C18 *)
\* opcodes of the opcode table that `run` does not implement
Unimplemented ==
    {"Unreachable", "CallIndirect", "GlobalGet", "GlobalSet", "MemoryGrow", "F32Load",
     "F32Add", "F64Abs"}

\* C18: an opcode the interpreter does not implement (unreachable,
\* call_indirect, memory.grow, the global and the floating-point opcodes), when
\* it is executed in any activation, ends the invocation with InvalidBytecode:
\* no other error, no panic, and execution does not go on past it
ThmC18_Unimplemented ==
    [][(Running /\ Opcode \in Unimplemented) =>
            (status' = "Err" /\ error' = "InvalidBytecode" /\ frames' = <<>>)
      ]_vars

\* the body that calls the one with memory.grow has ended with InvalidBytecode
WitC18_GrowInCallee ==
    /\ invocation.func = UnimplementedFunc(7)
    /\ status = "Err" /\ error = "InvalidBytecode"

(* C19 *)
\* the 64-bit argument of the invocation and its low 32 bits
Arg == invocation.args[1].val

WrappedArg == { i \in Arg : i <= 31 }

\* what the k-th body that wraps its argument returns: the wrapped value as
\* its result;  the wrapped value plus one;  the eight bytes of the memory in
\* which it has stored the wrapped value as four;  the wrapped value, by way of
\* a local;  by way of a parameter of a called body;  1 if it is not zero
WrapResult(k) ==
    CASE k \in {0, 3, 4} -> result = [type |-> "I32", val |-> WrappedArg]
      [] k = 1 -> result.type = "I32" /\ IsSum(result.val, WrappedArg, {0}, 32)
      [] k = 2 -> result = [type |-> "I64", val |-> WrappedArg]
      [] k = 6 -> result = [type |-> "I32", val |-> IF WrappedArg = {} THEN {} ELSE {0}]

Wraps(k) == invocation.func = FirstWrap + k /\ status # "running"

\* C19: whatever consumes the cell i32.wrap_i64 leaves (the function result,
\* an i32 operator, i64.extend_i32_s / _u, a store, local.set and local.get, a
\* call parameter, `if`) finds the low 32 bits of the operand, x & 0xffffffff:
\* the instruction goes on with the stack as deep as before, the cell read as
\* an i32 is x & 0xffffffff, and every body that wraps its argument and hands
\* it to one of the consumers returns what that consumer makes of x & 0xffffffff
ThmC19_WrapKeepsLow32 ==
    [][/\ (Running /\ Opcode = "I32WrapI64" /\ Top.value_stack # <<>>) =>
            /\ Completes
            /\ Len(TopAfter.value_stack) = Len(Top.value_stack)
            /\ get_i32(Peek(TopAfter.value_stack))
                    = { i \in Peek(Top.value_stack) : i <= 31 }
       /\ \A k \in {0, 1, 2, 3, 4, 6} : Wraps(k)' => (status' = "Ok" /\ WrapResult(k)')
       /\ (invocation.func = ConvertFunc(172) /\ status' = "Ok") =>
            result' = [type |-> "I64",
                       val |-> WrappedArg \cup (IF 31 \in Arg THEN 32 .. 63 ELSE {})]
       /\ (invocation.func = ConvertFunc(173) /\ status' = "Ok") =>
            result' = [type |-> "I64", val |-> WrappedArg]
      ]_vars

\* the body that wraps and stores has returned the low 32 bits of an argument
\* whose upper 32 bits are not all zero
WitC19_StoredLow32 ==
    /\ Wraps(2) /\ status = "Ok"
    /\ Arg = Pattern64
    /\ result.val = WrappedArg /\ result.val # Arg

(* C20 *)
\* the bits of x that an extension reads, and the bits of its result
Extends ==
    [I32Extend8S |-> <<8, 32>>, I32Extend16S |-> <<16, 32>>, I64Extend8S |-> <<8, 64>>,
     I64Extend16S |-> <<16, 64>>, I64Extend32S |-> <<32, 64>>, I64ExtendI32S |-> <<32, 64>>,
     I64ExtendI32U |-> <<32, 64>>]

\* the extension of the low k bits of x to w bits: every bit from k on is bit
\* k - 1 of x, or zero for the unsigned extension
Extension(op, x) ==
    { i \in 0 .. (Extends[op][2] - 1) :
        IF i < Extends[op][1] THEN i \in x
        ELSE op # "I64ExtendI32U" /\ (Extends[op][1] - 1) \in x }

\* the body of the conversion with opcode byte b has returned
Converted(b) == invocation.func = ConvertFunc(b) /\ status # "running"

\* C20: each of i32.extend8_s, i32.extend16_s, i64.extend8_s, i64.extend16_s,
\* i64.extend32_s, i64.extend_i32_s and i64.extend_i32_u replaces the top cell,
\* whatever its upper bits, by the sign extension (the zero extension for
\* extend_i32_u) of its low 8 / 16 / 32 bits to the 32 or 64 bits of the result,
\* and a body that applies one to its argument returns that extension
ThmC20_Extensions ==
    [][/\ (Running /\ Opcode \in DOMAIN Extends /\ Top.value_stack # <<>>) =>
            /\ Completes
            /\ Len(TopAfter.value_stack) = Len(Top.value_stack)
            /\ Peek(TopAfter.value_stack) \cap (0 .. (Extends[Opcode][2] - 1))
                    = Extension(Opcode, Peek(Top.value_stack))
       /\ \A b \in {172, 173, 192, 193, 194, 195, 196} :
            Converted(b)' =>
                (status' = "Ok" /\ result'.val = Extension(OpcodeOf(b), Arg'))
      ]_vars

\* i32.extend8_s of a cell whose low byte is 0x80 and whose bit 32 is set has
\* returned 0xFFFFFF80
WitC20_Extend8 ==
    /\ Converted(192) /\ status = "Ok"
    /\ Arg = {7, 32}
    /\ result = [type |-> "I32", val |-> 7 .. 31]

(* C21 *)
\* the full unsigned count modulo the width: the count is the sum of its bytes
\* times powers of 256, and 256 is a multiple of 32 and of 64
Turns == Limb(Rhs, 0) % Width(Opcode)

\* x rotated: bit i of x goes to bit i + Turns (left) or i - Turns (right),
\* modulo the width
Rotated ==
    LET w == Width(Opcode)
    IN  IF Opcode \in {"I32Rotl", "I64Rotl"} THEN { (i + Turns) % w : i \in Lhs }
        ELSE { (i + w - Turns) % w : i \in Lhs }

\* C21: i32.rotl / rotr and i64.rotl / rotr push x rotated by the full unsigned
\* count modulo 32 or 64, whatever the count; the cast of the 64-bit count to
\* u32 changes nothing
ThmC21_Rotations ==
    [][Applies({"I32Rotl", "I32Rotr", "I64Rotl", "I64Rotr"}) =>
        /\ Completes
        /\ Len(TopAfter.value_stack) = Len(Top.value_stack) - 1
        /\ Low(Peek(TopAfter.value_stack), Width(Opcode)) = Rotated]_vars

\* i64.rotl of 2^63 by 2^32 + 1 has returned 1: the rotation by one place
WitC21_RotlByHighCount ==
    /\ invocation = [func |-> RotateFunc(137), args |-> <<ValI64({63}), ValI64({0, 32})>>]
    /\ status = "Ok"
    /\ result = ValI64({0})

(* C22 *)
\* the `if` at the current position has its condition cell
IfExecutes == Running /\ Opcode = "If" /\ Top.value_stack # <<>>

\* the position after its signature, under which its block is recorded
IfPosition == read_uint(Code, P1).next

\* the activation on top is, after the step, at the byte after the `end` of the
\* if-construct b, which it was inside of
LeavesIf(b) ==
    /\ b.inst_type = "If"
    /\ Completes
    /\ b.position <= Top.position /\ Top.position < b.end_position
    /\ TopAfter.position = b.end_position

\* C22: `if` pops one condition cell.  Non-zero: the block is pushed and the
\* then-arm is next.  Zero with an else: the block is pushed and the byte after
\* `else` is next.  Zero without an else: nothing is pushed and the byte after
\* the matching `end` is next.  And when an activation inside the construct gets
\* to the byte after its `end`, the entry the `if` pushed and every entry above
\* it are gone and the entries below are as they were: the depth is the depth
\* before the `if`.
ThmC22_IfProtocol ==
    [][/\ IfExecutes =>
            LET cc == Low(Peek(Top.value_stack), 32) # {}
                b == block_info(Info, IfPosition)
                after == TopAfter
            IN  /\ Completes
                /\ after.value_stack = Pop(Top.value_stack, 1)
                /\ after.locals = Top.locals
                /\ cc => /\ after.block_stack = Append(Top.block_stack, IfPosition)
                         /\ after.position = IfPosition
                /\ (~cc /\ b.else_position # 0) =>
                         /\ after.block_stack = Append(Top.block_stack, IfPosition)
                         /\ after.position = b.else_position
                         /\ OpcodeOf(ByteAt(Code, after.position - 1)) = "Else"
                /\ (~cc /\ b.else_position = 0) =>
                         /\ after.block_stack = Top.block_stack
                         /\ after.position = b.end_position
                         /\ OpcodeOf(ByteAt(Code, after.position - 1)) = "End"
       /\ Running =>
            \A i \in DOMAIN Info.blocks :
                LeavesIf(Info.blocks[i]) =>
                    \E d \in 0 .. (Len(Top.block_stack) - 1) :
                        /\ Top.block_stack[d + 1] = Info.blocks[i].position
                        /\ TopAfter.block_stack = SubSeq(Top.block_stack, 1, d)
      ]_vars

\* body 0 of the structure bodies, invoked with 0: the else-arm has been run and
\* the `if` has been left with only the enclosing block on the block stack
WitC22_LeftThroughElseArm ==
    /\ status = "running" /\ frames # <<>>
    /\ invocation = [func |-> StructureFunc(0), args |-> <<I32(0)>>]
    /\ Top.position = 16
    /\ Top.block_stack = <<2>>
    /\ Len(Top.value_stack) = 1 /\ get_i32(Peek(Top.value_stack)) = FromNat(20)

(* C23 *)
\* the `else` at the current position ends the then-arm of the if whose entry
\* is on top of the block stack
ElseExecutes ==
    /\ Running /\ Opcode = "Else"
    /\ Top.block_stack # <<>>
    /\ HasBlockInfo(Info, Peek(Top.block_stack))
    /\ block_info(Info, Peek(Top.block_stack)).else_position = P1

\* C23: `else` reached at the end of the then-arm pops the entry of the if,
\* leaves of the operand stack the cells below the entry depth of the if and,
\* when the signature of the if is not empty, the one cell that was on top,
\* and continues at the byte after the matching `end`: no instruction of the
\* else-arm is executed
ThmC23_ElseLeavesIf ==
    [][ElseExecutes =>
        LET b == block_info(Info, Peek(Top.block_stack))
            after == TopAfter
        IN  /\ b.inst_type = "If"
            /\ (ResultCells(b) <= Len(Top.value_stack)) => Completes
            /\ Completes =>
                /\ after.block_stack = Pop(Top.block_stack, 1)
                /\ after.value_stack =
                        SubSeq(Top.value_stack, 1, b.stack_level)
                        \o (IF b.block_type = "Empty" THEN <<>>
                            ELSE <<Peek(Top.value_stack)>>)
                /\ after.position = b.end_position
                /\ P1 < after.position
                /\ OpcodeOf(ByteAt(Code, after.position - 1)) = "End"]_vars

\* body 3 of the structure bodies, invoked with 1: the then-arm left two cells
\* and `else` has left the if with the top one
WitC23_ElseKeptTop ==
    /\ status = "running" /\ frames # <<>>
    /\ invocation = [func |-> StructureFunc(3), args |-> <<I32(1)>>]
    /\ Top.position = 12
    /\ Top.block_stack = <<>>
    /\ Len(Top.value_stack) = 1 /\ get_i32(Peek(Top.value_stack)) = FromNat(2)

(* C24 *)
\* the step ends the activation on top: it returns to its caller or to the embedder
Terminated == status' # "running" \/ Len(frames') < Len(frames)

Enclosing(fr) ==
    LET blocks == BlockInfos[fr.func + 1].blocks
    IN  { blocks[i].position : i \in { j \in DOMAIN blocks :
            blocks[j].position <= fr.position /\ fr.position < blocks[j].end_position } }

\* the block stack of fr is those positions, the outermost first
MirrorsNesting(fr) ==
    /\ { fr.block_stack[i] : i \in DOMAIN fr.block_stack } = Enclosing(fr)
    /\ \A i, j \in DOMAIN fr.block_stack : i < j => fr.block_stack[i] < fr.block_stack[j]

BrIfExecutes == Running /\ Opcode = "BrIf" /\ Top.value_stack # <<>>

\* the activation with the condition popped, past the br_if
Remaining ==
    [Top EXCEPT !.position = read_uint(Code, P1).next,
                !.value_stack = Pop(Top.value_stack, 1)]

\* C26: br_if pops one condition cell.  Zero: block stack, remaining operand
\* stack and locals are unchanged and the next instruction follows.  Non-zero:
\* the step is the step `br depth` makes from the remaining operand stack, the
\* same error included; when the block stack has depth+1 entries that is the
\* effect of a branch (C1).
ThmC26_BrIf ==
    [][BrIfExecutes =>
        LET cc == Low(Peek(Top.value_stack), 32) # {}
        IN  /\ ~cc => (Completes /\ TopAfter = Remaining)
            /\ cc => /\ Outcome(branch(Depth, Remaining))
                     /\ (Depth + 1 <= Len(Top.block_stack)) =>
                            /\ (ResultCells(TargetBlock(Remaining, Depth))
                                    <= Len(Remaining.value_stack)) => Completes
                            /\ Completes =>
                                /\ BranchEffect(Remaining, TopAfter, Depth)
                                /\ TopAfter.locals = Top.locals]_vars

\* body 5 of the structure bodies, invoked with 1: the taken `br_if 1` has left
\* both blocks with the cell below the condition as the result of the outer one
WitC26_TakenToOuterBlock ==
    /\ status = "running" /\ frames # <<>>
    /\ invocation = [func |-> StructureFunc(5), args |-> <<I32(1)>>]
    /\ Top.position = 18
    /\ Top.block_stack = <<>>
    /\ Len(Top.value_stack) = 1 /\ get_i32(Peek(Top.value_stack)) = FromNat(3)

(* C27 *)
\* the operand cells the instruction at the current position needs
Needs ==
    CASE Opcode \in BinaryOpcodes \cup StoreOpcodes -> 2
      [] Opcode = "Select" -> 3
      [] Opcode \in {"Drop", "LocalSet", "If", "BrIf", "I32Eqz"} \cup ConversionOpcodes -> 1
      [] OTHER -> 0

\* C27: an instruction executed with fewer operand cells than it needs (a binary
\* operator, a unary operator, local.set, a store, if, br_if, select, drop) ends
\* the invocation with InternalInconsistency, and never goes on
CexC27_UnderflowAborts ==
    [][(Running /\ Len(Top.value_stack) < Needs) =>
        (status' = "Err" /\ error' = "InternalInconsistency")]_vars

(* C28 *)
\* the select at the current position has its three cells
SelectExecutes == Running /\ Opcode = "Select" /\ Len(Top.value_stack) >= 3

\* the drop at the current position has a cell to remove
DropExecutes == Running /\ Opcode = "Drop" /\ Top.value_stack # <<>>

\* the step leaves everything but the operand stack and the position of the
\* running activation as it was, and goes on after the one-byte instruction
OnlyStackChanged ==
    /\ status' = "running" /\ memory' = memory /\ Len(frames') = Len(frames)
    /\ frames' = [frames EXCEPT ![Len(frames)] =
                    [Top EXCEPT !.position = Top.position + 1,
                                !.value_stack = frames'[Len(frames)].value_stack]]

\* C28: select takes cc from the top, b below it and a below b, and leaves a when
\* the low 32 bits of cc are not all zero and b otherwise: the stack is two cells
\* shorter, the cells below are untouched and the new top is the whole cell of
\* the chosen operand; drop on a non-empty stack removes the top cell only
ThmC28_SelectDrop ==
    [][LET stack == Top.value_stack
           n == Len(stack)
           after == frames'[Len(frames)].value_stack
       IN  /\ SelectExecutes =>
                /\ OnlyStackChanged
                /\ Len(after) = n - 2
                /\ \A i \in 1 .. (n - 3) : after[i] = stack[i]
                /\ after[n - 2] = (IF \E i \in 0 .. 31 : i \in stack[n]
                                   THEN stack[n - 2] ELSE stack[n - 1])
           /\ DropExecutes =>
                /\ OnlyStackChanged
                /\ Len(after) = n - 1
                /\ \A i \in 1 .. (n - 1) : after[i] = stack[i]]_vars

\* select with cc = 0x80000000 has left the first 64-bit operand, whole
WitC28_SelectedFirst ==
    /\ Running /\ invocation.func = SelectFunc(0)
    /\ invocation.args[3].val = {31} /\ invocation.args[2].val = {63}
    /\ Top.position = 7 /\ Top.value_stack = <<Pattern64>>

(* C29 *)
\* the bits each store opcode writes
Stores ==
    [I32Store8 |-> 8, I64Store8 |-> 8, I32Store16 |-> 16, I64Store16 |-> 16,
     I32Store |-> 32, I64Store32 |-> 32, I64Store |-> 64]

\* the store at the current position has its two cells and a memory
StoreExecutes ==
    Running /\ Opcode \in StoreOpcodes /\ memory.present /\ Len(Top.value_stack) >= 2

\* the address cell below the value, a number under 2^16, plus the memarg offset
StoreAddress ==
    ToNat(Low(Top.value_stack[Len(Top.value_stack) - 1], 16)) + read_memarg(Code, P1).offset

\* the bytes the store at the current position covers lie inside the memory
StoreInBounds ==
    /\ Top.value_stack[Len(Top.value_stack) - 1] \cap (16 .. 31) = {}
    /\ StoreAddress + (Stores[Opcode] \div 8) <= byte_length(memory)

\* bit i of the byte at address a of a memory
MemoryBit(mem, a, i) == (ReadByte(mem, a) \div Pow2(i)) % 2 = 1

\* the step has written the low N bits of the top cell at StoreAddress, lowest
\* byte first, and nothing else
Written ==
    LET value == Peek(Top.value_stack)
        span == StoreAddress .. (StoreAddress + (Stores[Opcode] \div 8) - 1)
    IN  /\ status' = "running" /\ Len(frames') = Len(frames)
        /\ frames'[Len(frames)] =
              [Top EXCEPT !.position = read_memarg(Code, P1).next,
                          !.value_stack = Pop(Top.value_stack, 2)]
        /\ memory'.present /\ memory'.pages = memory.pages
        /\ \A b \in 0 .. (Stores[Opcode] - 1) :
              MemoryBit(memory', StoreAddress + (b \div 8), b % 8) <=> b \in value
        /\ { p \in memory'.bytes : p[1] \notin span }
              = { p \in memory.bytes : p[1] \notin span }
        /\ \A p, q \in memory'.bytes : p[1] = q[1] => p = q

\* the invocation is of a body that stores its second parameter and loads it
\* back with the zero-extending load of the same width
StoresAndLoads == invocation.func \in StoreLoadFunc(0) .. (StoreLoadFunc(0) + 6)

StoredBits == Stores[OpcodeOf(Functions[invocation.func + 1].code[5])]

\* C29: a store whose bytes lie inside the memory takes the value from the top
\* cell and the address from the cell below, writes the low N bits of the value
\* (N = 8, 16, 32, 64 by opcode) little-endian at address + offset and changes no
\* other byte; the zero-extending load of the same width at the same effective
\* address then returns those N bits, with zeros above
ThmC29_StoreThenLoad ==
    [][/\ (StoreExecutes /\ StoreInBounds) => Written
       /\ (StoresAndLoads /\ status = "running" /\ status' = "Ok") =>
             /\ result'.val = Low(invocation.args[2].val, StoredBits)
             /\ result'.type = (IF StoredBits = 64 \/ invocation.args[2].type = "I64"
                                THEN "I64" ELSE "I32")]_vars

\* i64.store16 of 0x8202038407060588 at 2 + 4 over the data has been read back
\* as 0x0588
WitC29_ReadBackLow16 ==
    /\ status = "Ok" /\ invocation.func = StoreLoadFunc(5)
    /\ invocation.args = <<ValI32(FromNat(2)), ValI64(Pattern64)>>
    /\ result = ValI64(Low(Pattern64, 16))
    /\ <<6, 136>> \in memory.bytes /\ <<7, 5>> \in memory.bytes
    /\ <<4, 254>> \in memory.bytes

(* C30 *)
\* the bits each narrow load reads, the bits it pushes, and whether it extends
\* with the sign
Loads ==
    [I32Load8S |-> <<8, 32, TRUE>>, I32Load8U |-> <<8, 32, FALSE>>,
     I32Load16S |-> <<16, 32, TRUE>>, I32Load16U |-> <<16, 32, FALSE>>,
     I64Load8S |-> <<8, 64, TRUE>>, I64Load8U |-> <<8, 64, FALSE>>,
     I64Load16S |-> <<16, 64, TRUE>>, I64Load16U |-> <<16, 64, FALSE>>,
     I64Load32S |-> <<32, 64, TRUE>>, I64Load32U |-> <<32, 64, FALSE>>]

\* the address cell on top, a number under 2^16, plus the memarg offset
LoadAddress == ToNat(Low(Peek(Top.value_stack), 16)) + read_memarg(Code, P1).offset

\* the narrow load at the current position has its cell and reads inside the memory
NarrowLoadExecutes ==
    /\ Running /\ Opcode \in DOMAIN Loads /\ memory.present /\ Top.value_stack # <<>>
    /\ Peek(Top.value_stack) \cap (16 .. 31) = {}
    /\ LoadAddress + (Loads[Opcode][1] \div 8) <= byte_length(memory)

\* C30: a narrow load replaces the address by the value whose low N bits are
\* the N bits read at address + offset, lowest byte first, and whose bits from N
\* up to the width of the result all equal bit N - 1 for a _s opcode and are all
\* zero for a _u opcode
ThmC30_NarrowLoadsExtend ==
    [][NarrowLoadExecutes =>
        LET N == Loads[Opcode][1]
            W == Loads[Opcode][2]
            pushed == Peek(frames'[Len(frames)].value_stack)
        IN  /\ status' = "running" /\ Len(frames') = Len(frames) /\ memory' = memory
            /\ Len(frames'[Len(frames)].value_stack) = Len(Top.value_stack)
            /\ \A b \in 0 .. (N - 1) :
                  b \in pushed <=> MemoryBit(memory, LoadAddress + (b \div 8), b % 8)
            /\ \A b \in N .. (W - 1) :
                  b \in pushed <=>
                      (Loads[Opcode][3] /\ MemoryBit(memory, LoadAddress + ((N - 1) \div 8), 7))]_vars

\* i32.load8_s of the byte 0xFF has returned -1
WitC30_Load8SMinusOne ==
    /\ status = "Ok" /\ invocation.func = ExtendingLoadFunc(0)
    /\ invocation.args = <<ValI32(FromNat(255) \cup {9})>>
    /\ result = I32(-1)

(* C31 *)
\* the integer a byte stands for when it is the top byte of a signed number
SignedByte(n) == IF n >= 128 THEN n - 256 ELSE n

\* x < y for the numbers of w bits given by their bytes, the top byte signed or not
NumberLess(x, y, w, signed) ==
    LET top == (w \div 8) - 1
        Digit(v, k) == IF signed /\ k = top THEN SignedByte(Limb(v, k)) ELSE Limb(v, k)
    IN  \E k \in 0 .. top :
            /\ Digit(x, k) < Digit(y, k)
            /\ \A j \in (k + 1) .. top : Limb(x, j) = Limb(y, j)

\* the relation the comparison op names holds between a and b
Holds(op, a, b) ==
    LET w == IF op \in {"I32Eq", "I32Ne", "I32LtS", "I32LtU", "I32GtS", "I32GtU", "I32LeS",
                        "I32LeU", "I32GeS", "I32GeU"} THEN 32 ELSE 64
        x == Low(a, w)
        y == Low(b, w)
        signed == op \in {"I32LtS", "I32GtS", "I32LeS", "I32GeS",
                          "I64LtS", "I64GtS", "I64LeS", "I64GeS"}
    IN  CASE op \in {"I32Eq", "I64Eq"} -> x = y
          [] op \in {"I32Ne", "I64Ne"} -> x # y
          [] op \in {"I32LtS", "I32LtU", "I64LtS", "I64LtU"} -> NumberLess(x, y, w, signed)
          [] op \in {"I32GtS", "I32GtU", "I64GtS", "I64GtU"} -> NumberLess(y, x, w, signed)
          [] op \in {"I32LeS", "I32LeU", "I64LeS", "I64LeU"} -> ~NumberLess(y, x, w, signed)
          [] op \in {"I32GeS", "I32GeU", "I64GeS", "I64GeU"} -> ~NumberLess(x, y, w, signed)

\* the cell that holds 1 when p and 0 otherwise
Flag(p) == IF p THEN {0} ELSE {}

\* C31: a binary comparison replaces its two operands by one cell that is 1 when
\* the relation holds between a (pushed earlier) and b (pushed later), taken as
\* signed numbers by the _s opcodes and as unsigned numbers by the _u opcodes,
\* and 0 otherwise; eqz replaces the top cell by 1 when its 32 (64) bits are all
\* zero and by 0 otherwise
ThmC31_Comparisons ==
    [][LET stack == Top.value_stack
           n == Len(stack)
           after == frames'[Len(frames)].value_stack
       IN  /\ (Running /\ Opcode \in ComparisonOpcodes /\ n >= 2) =>
                /\ OnlyStackChanged
                /\ after = Append(Pop(stack, 2), Flag(Holds(Opcode, stack[n - 1], stack[n])))
           /\ (Running /\ Opcode \in {"I32Eqz", "I64Eqz"} /\ n >= 1) =>
                /\ OnlyStackChanged
                /\ after = Append(Pop(stack, 1),
                                  Flag(\A i \in 0 .. (IF Opcode = "I32Eqz" THEN 31 ELSE 63) :
                                          i \notin stack[n]))]_vars

\* i32.lt_s(-1, 1) has returned 1
WitC31_MinusOneBelowOne ==
    /\ status = "Ok" /\ invocation.func = CompareFunc(72)
    /\ invocation.args = <<I32(-1), I32(1)>> /\ result = I32(1)

(* C32 *)
\* the instruction at the current position is a local access whose index
\* immediate can be read and, for local.set and local.tee, has a cell to store
LocalAccess(op) ==
    /\ Running /\ Opcode = op /\ read_uint(Code, P1).ok
    /\ op = "LocalGet" \/ Top.value_stack # <<>>

LocalIndex == read_uint(Code, P1).val

\* the activation after the step: only the operand stack and the local i differ
OnlyLocalChanged(i) ==
    LET after == frames'[Len(frames)]
    IN  /\ status' = "running" /\ Len(frames') = Len(frames) /\ memory' = memory
        /\ \A k \in 1 .. (Len(frames) - 1) : frames'[k] = frames[k]
        /\ after = [Top EXCEPT !.position = read_uint(Code, P1).next,
                                !.value_stack = after.value_stack,
                                !.locals = after.locals]
        /\ DOMAIN after.locals = DOMAIN Top.locals
        /\ \A k \in DOMAIN Top.locals : k # i + 1 => after.locals[k] = Top.locals[k]

\* C32: local.get i pushes locals[i] and changes no local; local.set i moves the
\* top cell into locals[i]; local.tee i copies the top cell into locals[i] and
\* leaves the operand stack as it is; no other local changes; an index that is
\* not below the number of locals ends the invocation with InternalInconsistency
ThmC32_LocalAccess ==
    [][LET stack == Top.value_stack
           after == frames'[Len(frames)]
       IN  \A op \in {"LocalGet", "LocalSet", "LocalTee"} :
             LocalAccess(op) =>
               IF LocalIndex >= Len(Top.locals)
               THEN status' = "Err" /\ error' = "InternalInconsistency" /\ frames' = <<>>
               ELSE /\ OnlyLocalChanged(LocalIndex)
                    /\ op = "LocalGet" =>
                          /\ after.value_stack = Append(stack, Top.locals[LocalIndex + 1])
                          /\ after.locals = Top.locals
                    /\ op = "LocalSet" =>
                          /\ after.value_stack = Pop(stack, 1)
                          /\ after.locals[LocalIndex + 1] = Peek(stack)
                    /\ op = "LocalTee" =>
                          /\ after.value_stack = stack
                          /\ after.locals[LocalIndex + 1] = Peek(stack)]_vars

\* local.tee 2 has copied the 64-bit top cell into the first declared local and
\* left it on the stack; the parameters are as they were
WitC32_TeeKeptTop ==
    /\ Running /\ invocation.func = LocalFunc(0) /\ invocation.args[1] = I32(7)
    /\ Top.position = 4 /\ Top.value_stack = <<Pattern64>>
    /\ Top.locals = <<FromInt(7, 32), Pattern64, Pattern64, {}>>

(* C33 *)
\* the bits of a value of the given type
TypeWidth(type) == IF type = "I32" THEN 32 ELSE 64

\* a step of an activation that has a caller and does not return
InCallee == status = "running" /\ Len(frames) >= 2 /\ Len(frames') >= Len(frames)

\* C33: a call of a defined function starts an activation at position 0 with
\* empty operand and block stacks whose locals are the parameter cells taken from
\* the caller in the order they were pushed, at their declared types, followed by
\* a zero for every declared local; the caller keeps its locals, its block stack
\* and its cells below the parameters; no step of the callee, and no return,
\* changes the locals, the block stack or those cells of any caller
ThmC33_CallIsolation ==
    [][/\ CallStarts =>
            LET callee == frames'[Len(frames) + 1]
                caller == frames'[Len(frames)]
                params == Callee.param_types
                n == Len(Top.value_stack)
                k == Len(params)
            IN  /\ callee.position = 0 /\ callee.value_stack = <<>>
                /\ callee.block_stack = <<>>
                /\ callee.code = Callee.code
                /\ Len(callee.locals) = k + Len(Callee.local_types)
                /\ \A i \in 1 .. k :
                      Low(callee.locals[i], TypeWidth(params[i]))
                        = Low(Top.value_stack[n - k + i], TypeWidth(params[i]))
                /\ \A i \in (k + 1) .. Len(callee.locals) : callee.locals[i] = {}
                /\ caller = [Top EXCEPT !.position = caller.position,
                                        !.value_stack = SubSeq(Top.value_stack, 1, n - k)]
                /\ SubSeq(frames', 1, Len(frames) - 1) = SubSeq(frames, 1, Len(frames) - 1)
       /\ (InCallee /\ ~CallStarts) =>
            SubSeq(frames', 1, Len(frames) - 1) = SubSeq(frames, 1, Len(frames) - 1)
       /\ CalleeReturns =>
            LET before == frames[Len(frames) - 1]
                after == frames'[Len(frames) - 1]
            IN  /\ after.locals = before.locals /\ after.block_stack = before.block_stack
                /\ SubSeq(after.value_stack, 1, Len(before.value_stack)) = before.value_stack
                /\ SubSeq(frames', 1, Len(frames) - 2) = SubSeq(frames, 1, Len(frames) - 2)
      ]_vars

\* the callee, started with (0, -2) inside a block of its caller, has written 1
\* to its parameter 0 and 9 to its parameter 1: its caller still has its own
\* locals 0 and 0, its block entry and the cells 100 and 50
WitC33_CalleeWroteItsLocals ==
    /\ status = "running" /\ Len(frames) = 2
    /\ invocation = [func |-> CallFunc(1), args |-> <<I32(0)>>]
    /\ Top.func = CallFunc(0) /\ Top.position = 19
    /\ Top.locals = <<{0}, FromNat(9), {}, {}>>
    /\ frames[1].locals = <<{}, {}>> /\ Len(frames[1].block_stack) = 1
    /\ Len(frames[1].value_stack) = 2
    /\ get_i32(frames[1].value_stack[1]) = FromNat(100)
    /\ get_i32(frames[1].value_stack[2]) = FromNat(50)

(* C34 *)
\* the error the instruction at the current position raises, "None" if it
\* raises none of the three
RaisedError ==
    CASE Applies(Divisions) /\ Rhs = {} -> "DivideByZero"
      [] Accesses /\ BeyondMemory -> "OutOfBounds"
      [] Running /\ Opcode \in Unimplemented -> "InvalidBytecode"
      [] OTHER -> "None"

\* C34: when an instruction of a callee, at any depth, raises an error, the step
\* ends the invocation with that error: every activation is gone, no result is
\* set or pushed, and the next step, if any, is the start of another invocation
ThmC34_TrapPropagates ==
    [][/\ (Running /\ Len(frames) >= 2 /\ RaisedError # "None") =>
            /\ status' = "Err" /\ error' = RaisedError
            /\ frames' = <<>> /\ result' = result
            /\ runs'[Len(runs)].status = "Err" /\ runs'[Len(runs)].error = RaisedError
            /\ runs'[Len(runs)].result = ValEmpty
       /\ status = "Err" =>
            /\ frames = <<>>
            /\ Len(runs') = Len(runs) + 1 /\ Len(frames') = 1
            /\ frames'[1].position = 0 /\ frames'[1].value_stack = <<>>
      ]_vars

\* the division by zero two calls below body 4 of the call bodies has ended the
\* invocation of that body
WitC34_TrapTwoCallsDown ==
    /\ invocation = [func |-> CallFunc(4), args |-> <<I32(0)>>]
    /\ status = "Err" /\ error = "DivideByZero"
    /\ frames = <<>> /\ result = ValEmpty

(* C35 *)
\* the branches the instruction at the current position performs: the frame
\* handed to `branch` and the label, for br, a taken br_if, br_table and else
Branching ==
    IF ~Running THEN {}
    ELSE IF Opcode = "Br" /\ read_uint(Code, P1).ok
    THEN {[fr |-> Top, label |-> Depth]}
    ELSE IF Opcode = "BrIf" /\ read_uint(Code, P1).ok /\ Top.value_stack # <<>>
            /\ get_bool(Peek(Top.value_stack))
    THEN {[fr |-> [Top EXCEPT !.value_stack = Pop(@, 1)], label |-> Depth]}
    ELSE IF Opcode = "BrTable" /\ Top.value_stack # <<>>
            /\ BrTableTarget(Code, P1, Peek(Top.value_stack)).ok
    THEN {[fr |-> [Top EXCEPT !.value_stack = Pop(@, 1)],
           label |-> BrTableTarget(Code, P1, Peek(Top.value_stack)).val]}
    ELSE IF Opcode = "Else" THEN {[fr |-> Top, label |-> 0]}
    ELSE {}

\* the branches `branch` completes: the target is on the block stack and the
\* result cell it retains is on the operand stack
Targeted ==
    { b \in Branching :
        /\ b.label + 1 <= Len(b.fr.block_stack)
        /\ ResultCells(TargetBlock(b.fr, b.label)) <= Len(b.fr.value_stack) }

Remainders == {"I32RemS", "I32RemU", "I64RemS", "I64RemU"}

\* the operands are the most negative integer and -1, at the operator's width
MinByMinusOne == Lhs = {Width(Opcode) - 1} /\ Rhs = 0 .. (Width(Opcode) - 1)

\* C36: rem_s of the most negative integer by -1 pushes 0 in place of its two
\* operands and execution continues, at both widths; every remainder whose
\* divisor is not zero continues, and one that ends the invocation with an
\* error has a zero divisor
ThmC36_RemainderTraps ==
    [][/\ (Applies({"I32RemS", "I64RemS"}) /\ MinByMinusOne) =>
            /\ Completes
            /\ TopAfter.value_stack
                 = Append(Pop(Top.value_stack, 2), from_usize({}))
       /\ (Applies(Remainders) /\ Rhs # {}) => Completes
       /\ (Applies(Remainders) /\ status' = "Err") =>
            (Rhs = {} /\ error' = "DivideByZero")]_vars

\* i64.rem_s applied to (MIN, -1) has returned 0
WitC36_RemSMinByMinusOne ==
    /\ invocation = [func |-> BinaryFunc(129), args |-> <<ValI64({63}), I64(-1)>>]
    /\ status = "Ok" /\ result = I64(0)

(* C37 *)
\* the `call` at the current position names no function of the table
CallsNoFunction ==
    /\ Running /\ Opcode = "Call" /\ read_uint(Code, P1).ok
    /\ read_uint(Code, P1).val >= Len(Functions)

\* the `call` at the current position names a function with more parameters
\* than the operand stack has cells
CallsWithFewCells ==
    /\ Running /\ Opcode = "Call" /\ read_uint(Code, P1).ok
    /\ read_uint(Code, P1).val < Len(Functions)
    /\ Len(Top.value_stack) < Len(Callee.param_types)

\* C37: a call of a function index outside the table, and a call executed with
\* fewer cells than the callee has parameters, end the invocation with
\* InternalInconsistency, and no activation is started
CexC37_CallAborts ==
    [][(CallsNoFunction \/ CallsWithFewCells) =>
        (status' = "Err" /\ error' = "InternalInconsistency" /\ frames' = <<>>)]_vars

(* C38 *)
Resolved == {"fd_write", "syscall0", "syscall1", "syscall2", "syscall3", "syscall4"}

\* the function imports of the blob that bear a name the linker does not resolve
Unresolved ==
    { i \in DOMAIN runner.imports :
        IsFunc(runner.imports[i]) /\ runner.imports[i].name \notin Resolved }

\* C38: for every import name of the blob, whatever the module name and the
\* type, the linker returns a host callable when the name is fd_write or one of
\* syscall0 .. syscall4 and DynamicLinkError otherwise; and once `main` has
\* acted on a blob that imports a function of another name, the instantiation
\* has failed with DynamicLinkError, no callable is installed and nothing is
\* invoked
ThmC38_LinkerByName ==
    /\ \A i \in DOMAIN runner.imports : \A mod_name \in ModNames, type_ref \in TypeRefs :
            LET linked == linker(mod_name, runner.imports[i].name, type_ref)
            IN  IF runner.imports[i].name \in Resolved
                THEN linked.ok /\ linked.callable \in {"wasm_fd_write", "syscall"}
                ELSE ~linked.ok /\ linked.error = "DynamicLinkError"
    /\ (runner.phase \notin {"none", "main"} /\ Unresolved # {}) =>
            /\ runner.phase = "panic" /\ runner.error = "DynamicLinkError"
            /\ runner.callables = <<>>
            /\ runs = <<>> /\ frames = <<>>

\* `main` has failed on a blob that imports fd_write and then env.print
WitC38_PrintRejected ==
    /\ runner.phase = "panic" /\ Len(runner.imports) = 2
    /\ runner.imports[1].name = "fd_write" /\ IsFunc(runner.imports[1])
    /\ runner.imports[1].mod_name = "env"
    /\ runner.imports[2].name = "print" /\ IsFunc(runner.imports[2])

====
